---- MODULE Spec2Model ----
(***************************************************************************)
(* The architecture-review pipeline of AgentCon-Cloud-Repo.                *)
(*                                                                         *)
(* Two variants of the pipeline are modelled side by side:                 *)
(*   "original"   src/agentcon_demo.py, run_sequential_workflow            *)
(*   "refactored" src/refactored/agentcon_demo_refactored.py,              *)
(*                AgentPipeline.run                                        *)
(* A text is a sequence of tokens; ''.join and f-strings are sequence      *)
(* concatenation, the literal parts of an f-string are tokens of their own.*)
(***************************************************************************)
EXTENDS Integers, Sequences, FiniteSets, TLC

\* ------------------------------------------------------------------ bounds
\* Most chunks the completion engine yields in one run, over all its streams.
MaxDeltas == 2
\* Longest message list of one non-streamed response (refactored variant).
MaxMessages == 2
\* Last value of the wall clock, in seconds since the run started.
MaxClock == 1

\* ------------------------------------------------------------------ values
\* Python's None.
None == <<"<None>">>
\* A response object that has no attribute at all (hasattr is false).
NoAttr == <<"<no attribute>">>
\* A local variable that has not been assigned yet.
Unset == <<"<unset>">>

\* The tokens the completion engine answers with.
Tokens == {"a", "b"}
\* The text of one streamed chunk, or the content of one message: None, the
\* empty string, or a one-token string.
ChunkTexts == {None, <<>>} \cup {<<t>> : t \in Tokens}
\* The architecture descriptions a caller passes in text mode.
InputTexts == {<<"t">>, <<>>}
\* The image payloads main() builds (UriContent for http/https sources,
\* DataContent for local files).
UriContent == <<"UriContent">>
DataContent == <<"DataContent">>
ImagePayloads == {UriContent, DataContent}
\* What the completion engine can raise.
EngineErrors == {"timeout"}

\* The image sources a caller configures: a path is a sequence of tokens, its
\* first token the part str.startswith looks at.
ImagePaths ==
    {<<"https://", "diagram.png">>, <<"/local/", "diagram.png">>,
     <<"/local/", "missing.png">>}
\* The local files that can be read.
ReadableFiles == {<<"/local/", "diagram.png">>}

\* The names main() looks up in the environment.
EnvNames == {"USE_IMAGE_MODE", "ARCHITECTURE_IMAGE_PATH"}

\* What USE_IMAGE_MODE can be set to (Unset: the variable is not set).
SwitchValues == {Unset, <<"true">>, <<"TRUE">>, <<"false">>, <<"1">>}

\* The environments a run can be started in.
Environs ==
    {[name \in EnvNames |->
         IF name = "USE_IMAGE_MODE" THEN switch ELSE path] :
        switch \in SwitchValues, path \in {Unset, <<>>} \cup ImagePaths}

\* os.getenv(name, default)
getenv(env, name, default) == IF env[name] = Unset THEN default ELSE env[name]

\* str.lower over the one-token strings of the switch.
lower(text) == IF text = <<"TRUE">> THEN <<"true">> ELSE text

\* The environment that makes main() choose a mode and an image source.
EnvironOf(mode, path) ==
    [name \in EnvNames |->
        IF name = "USE_IMAGE_MODE"
        THEN (IF mode THEN <<"true">> ELSE <<"false">>)
        ELSE path]

\* The architecture text main() uses in text mode.
demo_architecture == <<"t">>

\* DemoConfig.from_env, and the same two lookups in the original main().
from_env(env) ==
    [openai_api_key |-> <<>>,
     openai_model |-> <<"gpt-4o">>,
     use_image_mode |->
         lower(getenv(env, "USE_IMAGE_MODE", <<"false">>)) = <<"true">>,
     image_path |-> getenv(env, "ARCHITECTURE_IMAGE_PATH", <<>>),
     mcp_endpoint |-> <<"https://learn.microsoft.com/api/mcp">>]

\* The event loop before any run has taken a step.
Idle == [last |-> "", switches |-> 0]

\* No DemoConfig: the program has none, or has not built it yet.
NoConfig == [use_image_mode |-> FALSE, image_path |-> <<>>]

\* The handles the factory is constructed with.
mcp_tool == "mcp_tool"
chat_client == "chat_client"

\* MCPStreamableHTTPTool(...) as constructed: never entered, never exited.
MCPStreamableHTTPTool == [entered |-> 0, exited |-> 0]
\* Whether the tool's connection is open: entered and not yet exited.
is_connected(tool) == tool.entered > tool.exited

\* ------------------------------------------------------------------ roles
DIAGRAM_INTERPRETER == "diagram_interpreter"
CRITIC == "critic"
FIXER == "fixer"
VISUALIZER == "visualizer"
IAC_GENERATOR == "iac_generator"
AgentRole == {DIAGRAM_INTERPRETER, CRITIC, FIXER, VISUALIZER, IAC_GENERATOR}

\* The instructions table of the original factory, one text per role.
prompts ==
    [role \in AgentRole |->
        CASE role = DIAGRAM_INTERPRETER -> <<"Convert diagram to text.">>
          [] role = CRITIC -> <<"Critique Azure architecture. Use Microsoft Learn MCP.">>
          [] role = FIXER -> <<"Fix architecture. Use Microsoft Learn MCP.">>
          [] role = VISUALIZER -> <<"Generate a Mermaid diagram.">>
          [] role = IAC_GENERATOR -> <<"Generate Bicep snippet. Use Microsoft Learn MCP.">>]

\* ------------------------------------------------------------------ texts
\* ''.join(parts)
RECURSIVE Join(_)
Join(parts) ==
    IF parts = <<>> THEN <<>> ELSE Head(parts) \o Join(Tail(parts))

\* Python truthiness of an optional string.
Truthy(text) == text # None /\ text # NoAttr /\ text # <<>>

\* FixerPrompt with its two segments exchanged.
FixerPrompt_swapped(original, critique) ==
    <<"Original:\n">> \o critique \o <<"\n\nCritique:\n">> \o original

\* f"Original:\n{original}\n\nCritique:\n{critique}"
FixerPrompt(original, critique) ==
    <<"Original:\n">> \o original \o <<"\n\nCritique:\n">> \o critique

\* last_text handing back response.text whatever it is, without the
\* fallback to "".
last_text_unguarded(response) == response.text

\* last_text(response): response.text when the attribute exists and is truthy.
last_text(response) ==
    IF response.text # NoAttr /\ Truthy(response.text) THEN response.text ELSE <<>>

\* The responses agent.run can return, as last_text sees them.
Responses == [text : ChunkTexts \cup {NoAttr}]

\* The chunks run_stream can yield.
Chunks == [text : ChunkTexts]

\* The message lists a response of the refactored variant can carry.
Messages == [role : {"assistant", "tool", "user"}, content : ChunkTexts]

RECURSIVE SeqsUpTo(_, _)
SeqsUpTo(S, n) ==
    IF n = 0 THEN {<<>>}
    ELSE LET shorter == SeqsUpTo(S, n - 1)
         IN  shorter \cup {Append(q, x) : q \in shorter, x \in S}

MessageResponses == [messages : SeqsUpTo(Messages, MaxMessages)]

\* extract_last_text taking the last message that has content, whatever its
\* role.
extract_last_text_any_role(response) ==
    LET messages == response.messages
        filled == {i \in 1..Len(messages) : Truthy(messages[i].content)}
    IN  IF filled = {} THEN <<>>
        ELSE messages[CHOOSE i \in filled : \A j \in filled : j <= i].content

\* extract_last_text(response): the content of the last assistant message
\* that has content, scanning from the end.
RECURSIVE extract_last_text_from(_, _)
extract_last_text_from(messages, i) ==
    IF i = 0 THEN <<>>
    ELSE IF messages[i].role = "assistant" /\ Truthy(messages[i].content)
         THEN messages[i].content
         ELSE extract_last_text_from(messages, i - 1)

extract_last_text(response) ==
    extract_last_text_from(response.messages, Len(response.messages))

\* TextInputStrategy / ImageInputStrategy objects.
TextInputStrategy(text) == [type |-> "text", arg |-> text]
ImageInputStrategy(image_path) == [type |-> "image", arg |-> image_path]
NoStrategy == [type |-> "none", arg |-> <<>>]

\* requires_interpretation answering by whether the strategy holds anything
\* rather than by the kind of strategy.
requires_interpretation_by_content(strategy) == Truthy(strategy.arg)

\* InputStrategy.requires_interpretation()
requires_interpretation(strategy) == strategy.type = "image"

\* str.startswith over the token sequence of a path.
startswith(path, prefixes) == Len(path) > 0 /\ path[1] \in prefixes

\* ImageInputStrategy.get_input: a URL reference, or the file's content;
\* ImageContent.from_file raises when the file cannot be read.
get_input(strategy) ==
    IF strategy.type = "text"
    THEN [raised |-> None, value |-> strategy.arg]
    ELSE IF startswith(strategy.arg, {"http://", "https://"})
         THEN [raised |-> None, value |-> <<"ImageContent(url)">> \o strategy.arg]
         ELSE IF strategy.arg \in ReadableFiles
              THEN [raised |-> None,
                    value |-> <<"ImageContent.from_file">> \o strategy.arg]
              ELSE [raised |-> <<"ImageLoadFailure">>, value |-> None]

\* ------------------------------------------------------------------ state
VARIABLES
    variant,        \* "original", "refactored" or "step7": which program runs
    environ,        \* os.environ: the variables main() reads
    use_image_mode, \* main's use_image_mode
    demo_config,    \* refactored: the DemoConfig main() builds
    calls,          \* the calls made on an object checked on its own
    loop,           \* the event loop: the run that took the last step, and
                    \* how often it has gone from one run to another
    is_image,       \* original: main's `use_image_mode and image_path`, the
                    \* is_image argument of run_sequential_workflow
    image_path,     \* original: main's image_path ("" in text mode)
    input_data,     \* original: run_sequential_workflow's input_data argument
    mcp,            \* the MCPStreamableHTTPTool: times entered and exited
    main_pc,        \* where main() is: "start", "running" or "exited"
    input_strategy, \* refactored: the InputStrategy passed to AgentPipeline.run
    agent_config,   \* refactored: AgentFactory._agent_config, role -> entry
    results,        \* refactored: the results dict of AgentPipeline.run
    pc,             \* where the run is
    local,          \* the workflow's local variables holding stage texts
    parts,          \* the *_parts list of the streamed stage in progress
    requested,      \* every role create_agent has been called with, in order
    created,        \* every agent create_agent has returned, in order
    invoked,        \* every run / run_stream call made, in order
    emitted,        \* the chunks the engine has yielded in the current stream
    yielded,        \* how many chunks the engine has yielded in this run
    stdout,         \* everything printed, in order
    now,            \* the wall clock, in seconds
    files,          \* the output directory: file name -> content
    saved,          \* every save_response_to_file call and what it returned
    completed,      \* the stage results obtained so far, in order
    outcome         \* what the caller of the run has received

\* What main() is started with; no step of a run assigns any of these.
inputs == <<variant, environ, use_image_mode, is_image, image_path,
            input_strategy, agent_config, demo_config,
            calls>>

\* What main() holds around the pipeline; no step of the pipeline itself
\* assigns any of these.
main_vars == <<input_data, mcp, main_pc>>

vars == <<inputs, main_vars, loop, results, requested, pc, local, parts, created,
          invoked, emitted, yielded, stdout, now, files, saved, completed,
          outcome>>

\* The names of the workflow's locals.
LocalNames == {"architecture_text", "critique", "improved", "diagram", "bicep"}

\* ------------------------------------------------------------------ factory
\* AgentFactory.create_agent of the original demo.
create_agent(role) ==
    LET tools == IF role # VISUALIZER THEN <<mcp_tool>> ELSE <<>>
    IN  [chat_client |-> chat_client,
         instructions |-> prompts[role],
         name |-> role,
         tools |-> tools]

\* The agents section of agent_prompts.yaml: which roles use the MCP tool.
agent_prompts_yaml ==
    [role \in AgentRole |->
        [instructions |-> <<"yaml instructions of", role>>,
         uses_mcp |-> role \in {CRITIC, FIXER, IAC_GENERATOR}]]

\* A function restricted to a part of its domain.
Restrict(f, D) == [x \in D |-> f[x]]

\* The role tables a run of the pipeline is started with: the YAML's, with
\* any of its entries missing.
PipelineConfigs == {Restrict(agent_prompts_yaml, D) : D \in SUBSET AgentRole}

NoAgent == [name |-> "", instructions |-> <<>>, model_client |-> "", tools |-> <<>>]

\* create_agent_refactored falling back to a bare agent for a role the table
\* lacks (a dict.get with a default) instead of raising.
create_agent_refactored_default(config, role) ==
    IF role \notin DOMAIN config
    THEN [raised |-> None,
          agent |-> [name |-> role, instructions |-> <<>>,
                     model_client |-> chat_client, tools |-> <<>>]]
    ELSE LET tools == IF config[role].uses_mcp THEN <<mcp_tool>> ELSE <<>>
         IN  [raised |-> None,
              agent |-> [name |-> role,
                         instructions |-> config[role].instructions,
                         model_client |-> chat_client,
                         tools |-> tools]]

\* create_agent_refactored attaching the tool when uses_mcp is false.
create_agent_refactored_inverted(config, role) ==
    IF role \notin DOMAIN config
    THEN [raised |-> <<"KeyError">>, agent |-> NoAgent]
    ELSE LET tools == IF config[role].uses_mcp THEN <<>> ELSE <<mcp_tool>>
         IN  [raised |-> None,
              agent |-> [name |-> role,
                         instructions |-> config[role].instructions,
                         model_client |-> chat_client,
                         tools |-> tools]]

\* AgentFactory.create_agent of the refactored demo: the lookup of the role's
\* entry raises KeyError when the table has none.
create_agent_refactored(config, role) ==
    IF role \notin DOMAIN config
    THEN [raised |-> <<"KeyError">>, agent |-> NoAgent]
    ELSE LET tools == IF config[role].uses_mcp THEN <<mcp_tool>> ELSE <<>>
         IN  [raised |-> None,
              agent |-> [name |-> role,
                         instructions |-> config[role].instructions,
                         model_client |-> chat_client,
                         tools |-> tools]]

\* ------------------------------------------------------------------ output
\* One print call: what was printed and as what.
printed(out, kind, text) == Append(out, [kind |-> kind, text |-> text])

\* f"{output_dir}/{step_name}_{timestamp}.txt" with the default output_dir.
filename(step_name, timestamp) ==
    [output_dir |-> "output", step_name |-> step_name, timestamp |-> timestamp]

\* open(filename, "w").write(content): the file is created or overwritten.
write(fs, name, content) ==
    {f \in fs : f.name # name} \cup {[name |-> name, content |-> content]}

\* open(filename, "r").read(): the content of the file of that name.
read(fs, name) == (CHOOSE f \in fs : f.name = name).content

\* The runs that save into the same output directory; a pipeline checked
\* on its own is the first of them.
Runs == {"run 1", "run 2"}
self == "run 1"

\* save_response_to_file(step_name, content), called by a run when `out` is
\* printed: the file is named after the step and the second it is saved in,
\* written, announced, and its name returned.
save_response_to_file(run, step_name, content, out) ==
    LET timestamp == now
    IN  /\ files' = write(files, filename(step_name, timestamp), content)
        /\ stdout' = printed(out, "saved", <<step_name>>)
        /\ saved' = Append(saved, [by |-> run,
                                   step_name |-> step_name,
                                   content |-> content,
                                   returned |-> filename(step_name, timestamp)])

\* A stage result, as it is recorded when the stage's text is final.
StageResult(role, text) ==
    [roleId |-> role, text |-> text, sequenceIndex |-> Len(completed) + 1]

\* The keys of the results dict of AgentPipeline.run.
ResultKeys == {"input", "interpretation", "critique", "improved", "diagram", "iac"}

\* A results dict with no entry: a key maps to Unset until it is assigned.
NoResults == [key \in ResultKeys |-> Unset]

\* What the caller holds: nothing yet, a returned value, or a raised error.
\* `value` is the results dict that came back; a call that returns None, or
\* that raises, hands back no results.
Pending == [kind |-> "pending", value |-> NoResults, error |-> None]
Returned(value) == [kind |-> "returned", value |-> value, error |-> None]
Raised(error) == [kind |-> "raised", value |-> NoResults, error |-> <<error>>]

\* ------------------------------------------------------------------ original
\* The positions at which run_sequential_workflow waits for the engine.
AwaitingRun == {"step0_await", "step3_await"}
AwaitingStream == {"step1_stream", "step2_stream", "step4_stream"}

\* A stage begins: banner, create_agent(role), then run(prompt), or a fresh
\* parts list and run_stream(prompt).
StageStart(at, title, role, prompt, streamed, next) ==
    /\ variant = "original"
    /\ pc = at
    /\ requested' = Append(requested, role)
    /\ LET agent == create_agent(role)
       IN  /\ created' = Append(created, agent)
           /\ invoked' = Append(invoked,
                  [role |-> agent.name, prompt |-> prompt,
                   tools |-> agent.tools, streamed |-> streamed,
                   connected |-> is_connected(mcp)])
    /\ stdout' = printed(stdout, "banner", <<title>>)
    /\ IF streamed
       THEN parts' = <<>> /\ emitted' = <<>>
       ELSE UNCHANGED <<parts, emitted>>
    /\ pc' = next
    /\ UNCHANGED <<inputs, main_vars, saved, results, local, yielded, now,
                   files, completed, outcome, loop>>

\* StreamChunk putting each new text in front of the parts collected so far.
StreamChunk_prepend(at, chunk) ==
    /\ variant = "original"
    /\ pc = at
    /\ yielded < MaxDeltas
    /\ yielded' = yielded + 1
    /\ emitted' = Append(emitted, chunk)
    /\ IF Truthy(chunk.text)
       THEN /\ stdout' = printed(stdout, "chunk", chunk.text)
            /\ parts' = <<chunk.text>> \o parts
       ELSE UNCHANGED <<stdout, parts>>
    /\ UNCHANGED <<inputs, main_vars, saved, results, requested, pc, local,
                   created, invoked, now, files, completed, outcome, loop>>

\* StreamChunk printing everything collected so far at each chunk.
StreamChunk_echo_parts(at, chunk) ==
    /\ variant = "original"
    /\ pc = at
    /\ yielded < MaxDeltas
    /\ yielded' = yielded + 1
    /\ emitted' = Append(emitted, chunk)
    /\ IF Truthy(chunk.text)
       THEN /\ stdout' = printed(stdout, "chunk",
                                 Join(Append(parts, chunk.text)))
            /\ parts' = Append(parts, chunk.text)
       ELSE UNCHANGED <<stdout, parts>>
    /\ UNCHANGED <<inputs, main_vars, saved, results, requested, pc, local,
                   created, invoked, now, files, completed, outcome, loop>>

\* One iteration of `async for chunk in agent.run_stream(...)`.
StreamChunk(at, chunk) ==
    /\ variant = "original"
    /\ pc = at
    /\ yielded < MaxDeltas
    /\ yielded' = yielded + 1
    /\ emitted' = Append(emitted, chunk)
    /\ IF Truthy(chunk.text)
       THEN /\ stdout' = printed(stdout, "chunk", chunk.text)
            /\ parts' = Append(parts, chunk.text)
       ELSE UNCHANGED <<stdout, parts>>
    /\ UNCHANGED <<inputs, main_vars, saved, results, requested, pc, local,
                   created, invoked, now, files, completed, outcome, loop>>

\* The stream is exhausted: join the parts, print a newline, save the text.
StreamEnd(at, role, name, step_name, next) ==
    /\ variant = "original"
    /\ pc = at
    /\ LET text == Join(parts)
       IN  /\ local' = [local EXCEPT ![name] = text]
           /\ save_response_to_file(self, step_name, text,
                                    printed(stdout, "newline", <<>>))
           /\ completed' = Append(completed, StageResult(role, text))
    /\ pc' = next
    /\ UNCHANGED <<inputs, main_vars, results, requested, parts, created,
                   invoked, emitted, yielded, now, outcome, loop>>

\* Optional Step 0: Diagram Interpreter (for image inputs).
InterpreterStart ==
    /\ is_image
    /\ StageStart("entry", "STEP 0: Diagram Interpreter",
                  DIAGRAM_INTERPRETER, input_data, FALSE, "step0_await")

InterpreterDone ==
    /\ variant = "original"
    /\ pc = "step0_await"
    /\ \E response \in Responses :
          LET text == last_text(response)
          IN  /\ local' = [local EXCEPT !["architecture_text"] = text]
              /\ stdout' = printed(stdout, "text", text)
              /\ completed' = Append(completed,
                                     StageResult(DIAGRAM_INTERPRETER, text))
    /\ pc' = "step1"
    /\ UNCHANGED <<inputs, main_vars, saved, results, requested, parts,
                   created, invoked, emitted, yielded, now, files, outcome,
                   loop>>

\* The else branch: the input is the architecture text.
TextInput ==
    /\ variant = "original"
    /\ pc = "entry"
    /\ ~is_image
    /\ local' = [local EXCEPT !["architecture_text"] = input_data]
    /\ stdout' = printed(printed(stdout, "banner", <<"INPUT ARCHITECTURE">>),
                         "text", input_data)
    /\ pc' = "step1"
    /\ UNCHANGED <<inputs, main_vars, saved, results, requested, parts,
                   created, invoked, emitted, yielded, now, files, completed,
                   outcome, loop>>

\* CriticStart handing the critic the workflow's input_data itself.
CriticStart_raw_input ==
    StageStart("step1", "STEP 1: Architecture Critic", CRITIC,
               input_data, TRUE, "step1_stream")

\* Step 1: Critic (with MCP), streaming.
CriticStart ==
    StageStart("step1", "STEP 1: Architecture Critic", CRITIC,
               local["architecture_text"], TRUE, "step1_stream")

CriticChunk == \E chunk \in Chunks : StreamChunk("step1_stream", chunk)

CriticEnd ==
    StreamEnd("step1_stream", CRITIC, "critique", "step1_critic", "step2")

\* FixerStart not waiting for the critic's stream to end: it takes what
\* has been collected of the critique so far.
FixerStart_early ==
    StageStart("step1_stream", "STEP 2: Architecture Fixer", FIXER,
               FixerPrompt(local["architecture_text"], Join(parts)),
               TRUE, "step2_stream")

\* Step 2: Fixer (with MCP), streaming.
FixerStart ==
    StageStart("step2", "STEP 2: Architecture Fixer", FIXER,
               FixerPrompt(local["architecture_text"], local["critique"]),
               TRUE, "step2_stream")

FixerChunk == \E chunk \in Chunks : StreamChunk("step2_stream", chunk)

FixerEnd ==
    StreamEnd("step2_stream", FIXER, "improved", "step2_fixer", "step3")

\* VisualizerStart creating the IaC generator in the visualizer's place.
VisualizerStart_wrong_role ==
    StageStart("step3", "STEP 3: Diagram Visualizer", IAC_GENERATOR,
               local["improved"], FALSE, "step3_await")

\* Step 3: Visualizer (Mermaid diagram).
VisualizerStart ==
    StageStart("step3", "STEP 3: Diagram Visualizer", VISUALIZER,
               local["improved"], FALSE, "step3_await")

VisualizerDone ==
    /\ variant = "original"
    /\ pc = "step3_await"
    /\ \E response \in Responses :
          LET text == last_text(response)
          IN  /\ local' = [local EXCEPT !["diagram"] = text]
              /\ save_response_to_file(self, "step3_mermaid_diagram", text,
                                       printed(stdout, "text", text))
              /\ completed' = Append(completed, StageResult(VISUALIZER, text))
    /\ pc' = "step4"
    /\ UNCHANGED <<inputs, main_vars, results, requested, parts, created,
                   invoked, emitted, yielded, now, outcome, loop>>

\* IacGeneratorStart prompting with the diagram instead of the improved text.
IacGeneratorStart_from_diagram ==
    StageStart("step4", "STEP 4: IaC Generator", IAC_GENERATOR,
               local["diagram"], TRUE, "step4_stream")

\* Step 4: IaC Generator (with MCP), streaming.
IacGeneratorStart ==
    StageStart("step4", "STEP 4: IaC Generator", IAC_GENERATOR,
               local["improved"], TRUE, "step4_stream")

IacGeneratorChunk == \E chunk \in Chunks : StreamChunk("step4_stream", chunk)

IacGeneratorEnd ==
    StreamEnd("step4_stream", IAC_GENERATOR, "bicep", "step4_bicep", "complete")

\* The closing banner, then the function returns (None).
PipelineComplete ==
    /\ variant = "original"
    /\ pc = "complete"
    /\ stdout' = printed(stdout, "banner", <<"PIPELINE COMPLETE">>)
    /\ outcome' = Returned(NoResults)
    /\ pc' = "returned"
    /\ UNCHANGED <<inputs, main_vars, saved, results, requested, local, parts,
                   created, invoked, emitted, yielded, now, files, completed,
                   loop>>

\* InvocationFails with the visualizer's failure caught and the run going on.
InvocationFails_swallowed ==
    /\ variant = "original"
    /\ pc \in AwaitingRun \cup AwaitingStream
    /\ \E error \in EngineErrors : outcome' = Raised(error)
    /\ pc' = (IF pc = "step3_await" THEN "step4" ELSE "raised")
    /\ UNCHANGED <<inputs, main_vars, saved, results, requested, local, parts,
                   created, invoked, emitted, yielded, stdout, now, files,
                   completed, loop>>

\* The position at which the stage waiting at `at` begins.
StartOf(at) ==
    CASE at = "step0_await" -> "entry"
      [] at = "step1_stream" -> "step1"
      [] at = "step2_stream" -> "step2"
      [] at = "step3_await" -> "step3"
      [] at = "step4_stream" -> "step4"

\* InvocationFails with the failed stage caught and started over.
InvocationFails_retry ==
    /\ variant = "original"
    /\ pc \in AwaitingRun \cup AwaitingStream
    /\ Len(invoked) < 6
    /\ pc' = StartOf(pc)
    /\ UNCHANGED <<inputs, main_vars, saved, results, requested, local, parts,
                   created, invoked, emitted, yielded, stdout, now, files,
                   completed, outcome, loop>>

\* InvocationFails with the failure caught and the run left waiting for an
\* answer that never comes.
InvocationFails_hangs ==
    /\ variant = "original"
    /\ pc \in AwaitingRun \cup AwaitingStream
    /\ pc' = "hung"
    /\ UNCHANGED <<inputs, main_vars, saved, results, requested, local, parts,
                   created, invoked, emitted, yielded, stdout, now, files,
                   completed, outcome, loop>>

\* The engine call in progress raises: nothing catches it, so it leaves
\* run_sequential_workflow as it is.
InvocationFails ==
    /\ variant = "original"
    /\ pc \in AwaitingRun \cup AwaitingStream
    /\ \E error \in EngineErrors : outcome' = Raised(error)
    /\ pc' = "raised"
    /\ UNCHANGED <<inputs, main_vars, saved, results, requested, local, parts,
                   created, invoked, emitted, yielded, stdout, now, files,
                   completed, loop>>

\* A second passes while the run waits for the engine's answer to begin.
Tick ==
    /\ \/ pc \in AwaitingRun
       \/ pc \in AwaitingStream /\ emitted = <<>>
    /\ now < MaxClock
    /\ now' = now + 1
    /\ UNCHANGED <<inputs, main_vars, saved, results, requested, pc, local,
                   parts, created, invoked, emitted, yielded, stdout, files,
                   completed, outcome, loop>>

\* ------------------------------------------------------------------ refactored
\* The positions at which AgentPipeline.run waits for the engine.
AwaitingRefactored == {"r0_await", "r1_await", "r2_await", "r3_await", "r4_await"}

\* One of the pipeline's step methods up to its await: _print_step,
\* create_agent(role), agent.run(prompt).
StepStart(at, title, role, prompt, next) ==
    /\ variant = "refactored"
    /\ pc = at
    /\ stdout' = printed(stdout, "banner", <<title>>)
    /\ requested' = Append(requested, role)
    /\ LET made == create_agent_refactored(agent_config, role)
       IN  IF made.raised # None
           THEN /\ outcome' = Raised(made.raised[1])
                /\ pc' = "raised"
                /\ UNCHANGED <<created, invoked>>
           ELSE /\ created' = Append(created, made.agent)
                /\ invoked' = Append(invoked,
                       [role |-> made.agent.name, prompt |-> prompt,
                        tools |-> made.agent.tools, streamed |-> FALSE,
                        connected |-> is_connected(mcp)])
                /\ pc' = next
                /\ UNCHANGED outcome
    /\ UNCHANGED <<inputs, main_vars, saved, results, local, parts, emitted,
                   yielded, now, files, completed, loop>>

\* The rest of a step method and the assignment of its result in run.
StepDone(at, role, key, next) ==
    /\ variant = "refactored"
    /\ pc = at
    /\ \E response \in MessageResponses :
          LET text == extract_last_text(response)
          IN  /\ stdout' = printed(stdout, "text", text)
              /\ results' = [results EXCEPT ![key] = text]
              /\ completed' = Append(completed, StageResult(role, text))
              /\ IF key = "interpretation"
                 THEN local' = [local EXCEPT !["architecture_text"] = text]
                 ELSE UNCHANGED local
    /\ pc' = next
    /\ UNCHANGED <<inputs, main_vars, saved, requested, parts, created,
                   invoked, emitted, yielded, now, files, outcome, loop>>

\* Step 0: get_input() of an image strategy, then _interpret_diagram.
InterpretDiagramStart ==
    /\ variant = "refactored"
    /\ pc = "entry"
    /\ requires_interpretation(input_strategy)
    /\ LET got == get_input(input_strategy)
       IN  IF got.raised # None
           THEN /\ outcome' = Raised(got.raised[1])
                /\ pc' = "raised"
                /\ UNCHANGED <<inputs, main_vars, saved, results, requested,
                               local, parts, created, invoked, emitted,
                               yielded, stdout, now, files, completed, loop>>
           ELSE StepStart("entry", "STEP 0: Diagram Interpreter",
                          DIAGRAM_INTERPRETER, got.value, "r0_await")

InterpretDiagramDone ==
    StepDone("r0_await", DIAGRAM_INTERPRETER, "interpretation", "r1")

\* The text branch of run keeping the text without recording it under
\* "input".
UseTextStrategy_unrecorded ==
    /\ variant = "refactored"
    /\ pc = "entry"
    /\ ~requires_interpretation(input_strategy)
    /\ LET text == get_input(input_strategy).value
       IN  local' = [local EXCEPT !["architecture_text"] = text]
    /\ pc' = "r1"
    /\ UNCHANGED <<inputs, main_vars, saved, results, requested, parts,
                   created, invoked, emitted, yielded, stdout, now, files,
                   completed, outcome, loop>>

\* The else branch of step 0: the strategy's text is the architecture.
UseTextStrategy ==
    /\ variant = "refactored"
    /\ pc = "entry"
    /\ ~requires_interpretation(input_strategy)
    /\ LET text == get_input(input_strategy).value
       IN  /\ local' = [local EXCEPT !["architecture_text"] = text]
           /\ results' = [results EXCEPT !["input"] = text]
    /\ pc' = "r1"
    /\ UNCHANGED <<inputs, main_vars, saved, requested, parts, created,
                   invoked, emitted, yielded, stdout, now, files, completed,
                   outcome, loop>>

\* Step 1: _critique_architecture(architecture_text).
CritiqueStart ==
    StepStart("r1", "STEP 1: Architecture Critic", CRITIC,
              local["architecture_text"], "r1_await")

CritiqueDone == StepDone("r1_await", CRITIC, "critique", "r2")

\* Step 2: _fix_architecture(architecture_text, results["critique"]).
FixStart ==
    StepStart("r2", "STEP 2: Architecture Fixer", FIXER,
              FixerPrompt(local["architecture_text"], results["critique"]),
              "r2_await")

FixDone == StepDone("r2_await", FIXER, "improved", "r3")

\* Step 3: _visualize_architecture(results["improved"]).
VisualizeStart ==
    StepStart("r3", "STEP 3: Diagram Visualizer", VISUALIZER,
              results["improved"], "r3_await")

VisualizeDone == StepDone("r3_await", VISUALIZER, "diagram", "r4")

\* Step 4: _generate_iac(results["improved"]).
GenerateIacStart ==
    StepStart("r4", "STEP 4: IaC Generator", IAC_GENERATOR,
              results["improved"], "r4_await")

GenerateIacDone == StepDone("r4_await", IAC_GENERATOR, "iac", "r_return")

\* return results, and main's closing banner.
MainComplete ==
    /\ variant = "refactored"
    /\ pc = "r_return"
    /\ outcome' = Returned(results)
    /\ stdout' = printed(stdout, "banner", <<"PIPELINE COMPLETE">>)
    /\ pc' = "returned"
    /\ UNCHANGED <<inputs, main_vars, saved, results, requested, local, parts,
                   created, invoked, emitted, yielded, now, files, completed,
                   loop>>

\* RunFails handing the results gathered so far to the caller with the error.
RunFails_with_partial ==
    /\ variant = "refactored"
    /\ pc \in AwaitingRefactored
    /\ \E error \in EngineErrors :
          outcome' = [kind |-> "raised", value |-> results, error |-> <<error>>]
    /\ pc' = "raised"
    /\ UNCHANGED <<inputs, main_vars, saved, results, requested, local, parts,
                   created, invoked, emitted, yielded, stdout, now, files,
                   completed, loop>>

\* RunFails with main() announcing completion on its way out, as a finally
\* clause around pipeline.run would.
RunFails_announced ==
    /\ variant = "refactored"
    /\ pc \in AwaitingRefactored
    /\ \E error \in EngineErrors : outcome' = Raised(error)
    /\ stdout' = printed(stdout, "banner", <<"PIPELINE COMPLETE">>)
    /\ pc' = "raised"
    /\ UNCHANGED <<inputs, main_vars, saved, results, requested, local, parts,
                   created, invoked, emitted, yielded, now, files, completed,
                   loop>>

\* The engine call in progress raises: nothing in run or main catches it.
RunFails ==
    /\ variant = "refactored"
    /\ pc \in AwaitingRefactored
    /\ \E error \in EngineErrors : outcome' = Raised(error)
    /\ pc' = "raised"
    /\ UNCHANGED <<inputs, main_vars, saved, results, requested, local, parts,
                   created, invoked, emitted, yielded, stdout, now, files,
                   completed, loop>>

\* ------------------------------------------------------------------ main
\* The positions at which a run waits for the completion engine.
Awaiting == AwaitingRun \cup AwaitingStream \cup AwaitingRefactored

\* The positions at which the pipeline has ended, one way or another.
Ended == {"returned", "raised", "cancelled"}

\* main() of the original demo up to the call of run_sequential_workflow:
\* the tool is entered (`async with ... as mcp_tool`), the factory built,
\* and in image mode the payload made, reading the file for a local path.
MainEnter ==
    /\ variant = "original"
    /\ pc = "main"
    /\ main_pc = "start"
    /\ main_pc' = "running"
    /\ mcp' = [mcp EXCEPT !.entered = @ + 1]
    /\ IF ~is_image
       THEN pc' = "entry" /\ UNCHANGED <<input_data, outcome>>
       ELSE IF startswith(image_path, {"http://", "https://"})
            THEN /\ input_data' = UriContent
                 /\ pc' = "entry"
                 /\ UNCHANGED outcome
            ELSE IF image_path \in ReadableFiles
                 THEN /\ input_data' = DataContent
                      /\ pc' = "entry"
                      /\ UNCHANGED outcome
                 ELSE /\ outcome' = Raised("ImageLoadFailure")
                      /\ pc' = "raised"
                      /\ UNCHANGED input_data
    /\ UNCHANGED <<inputs, saved, results, requested, local, parts, created,
                   invoked, emitted, yielded, stdout, now, files, completed,
                   loop>>

\* The `async with` block of main() is left, by the end of the block or by
\* an exception passing through it: the tool is exited.
MainExit ==
    /\ variant = "original"
    /\ pc \in Ended
    /\ main_pc = "running"
    /\ mcp' = [mcp EXCEPT !.exited = @ + 1]
    /\ main_pc' = "exited"
    /\ UNCHANGED <<inputs, input_data, saved, results, requested, pc, local,
                   parts, created, invoked, emitted, yielded, stdout, now,
                   files, completed, outcome, loop>>

\* main() of the refactored demo up to pipeline.run: setup_dependencies
\* constructs the tool, and nothing enters it.
SetupDependencies ==
    /\ variant = "refactored"
    /\ pc = "main"
    /\ main_pc = "start"
    /\ main_pc' = "running"
    /\ mcp' = MCPStreamableHTTPTool
    /\ pc' = "entry"
    /\ UNCHANGED <<inputs, input_data, saved, results, requested, local,
                   parts, created, invoked, emitted, yielded, stdout, now,
                   files, completed, outcome, loop>>

\* main() of the refactored demo is left, by its last line or by an
\* exception: nothing exits the tool.
MainLeft ==
    /\ variant = "refactored"
    /\ pc \in Ended
    /\ main_pc = "running"
    /\ main_pc' = "exited"
    /\ UNCHANGED <<inputs, input_data, mcp, saved, results, requested, pc,
                   local, parts, created, invoked, emitted, yielded, stdout,
                   now, files, completed, outcome, loop>>

\* The caller cancels the task while it waits for the engine: CancelledError
\* is raised at the await, and nothing catches it.
Cancelled ==
    /\ pc \in Awaiting
    /\ outcome' = Raised("CancelledError")
    /\ pc' = "cancelled"
    /\ UNCHANGED <<inputs, main_vars, saved, results, requested, local, parts,
                   created, invoked, emitted, yielded, stdout, now, files,
                   completed, loop>>

\* ------------------------------------------------------------------ runs
InitOriginal ==
    /\ variant = "original"
    /\ is_image \in BOOLEAN
    /\ image_path \in (IF is_image THEN ImagePaths ELSE {<<>>})
    /\ use_image_mode = is_image
    /\ environ = EnvironOf(use_image_mode, image_path)
    /\ demo_config = NoConfig
    /\ calls = <<>>
    /\ loop = Idle
    /\ input_data \in (IF is_image THEN {Unset} ELSE InputTexts)
    /\ input_strategy = NoStrategy
    /\ agent_config = Restrict(agent_prompts_yaml, {})

InitRefactored ==
    /\ variant = "refactored"
    /\ is_image = FALSE
    /\ input_data = <<>>
    /\ input_strategy \in {TextInputStrategy(text) : text \in InputTexts}
                           \cup {ImageInputStrategy(path) : path \in ImagePaths}
    /\ use_image_mode = requires_interpretation(input_strategy)
    /\ image_path = (IF use_image_mode THEN input_strategy.arg ELSE <<>>)
    /\ environ = EnvironOf(use_image_mode, image_path)
    /\ demo_config = from_env(environ)
    /\ calls = <<>>
    /\ loop = Idle
    /\ agent_config \in PipelineConfigs

Init ==
    /\ (InitOriginal \/ InitRefactored)
    /\ mcp = MCPStreamableHTTPTool
    /\ main_pc = "start"
    /\ results = NoResults
    /\ pc = "main"
    /\ local = [name \in LocalNames |-> Unset]
    /\ parts = <<>>
    /\ requested = <<>>
    /\ created = <<>>
    /\ invoked = <<>>
    /\ emitted = <<>>
    /\ yielded = 0
    /\ stdout = <<>>
    /\ now = 0
    /\ files = {}
    /\ saved = <<>>
    /\ completed = <<>>
    /\ outcome = Pending

Next ==
    \/ MainEnter
    \/ MainExit
    \/ SetupDependencies
    \/ MainLeft
    \/ Cancelled
    \/ InterpreterStart
    \/ InterpreterDone
    \/ TextInput
    \/ CriticStart
    \/ CriticChunk
    \/ CriticEnd
    \/ FixerStart
    \/ FixerChunk
    \/ FixerEnd
    \/ VisualizerStart
    \/ VisualizerDone
    \/ IacGeneratorStart
    \/ IacGeneratorChunk
    \/ IacGeneratorEnd
    \/ PipelineComplete
    \/ InvocationFails
    \/ Tick
    \/ InterpretDiagramStart
    \/ InterpretDiagramDone
    \/ UseTextStrategy
    \/ CritiqueStart
    \/ CritiqueDone
    \/ FixStart
    \/ FixDone
    \/ VisualizeStart
    \/ VisualizeDone
    \/ GenerateIacStart
    \/ GenerateIacDone
    \/ MainComplete
    \/ RunFails

Spec == Init /\ [][Next]_vars

\* Whether the run is started on an image.
ImageRunAtStart ==
    IF variant = "original" THEN is_image
    ELSE requires_interpretation(input_strategy)

\* The steps the run itself takes once it can: every step but the passing
\* of time and the caller's cancellation.
Progress ==
    \/ MainEnter
    \/ MainExit
    \/ SetupDependencies
    \/ MainLeft
    \/ InterpreterStart
    \/ InterpreterDone
    \/ TextInput
    \/ CriticStart
    \/ CriticChunk
    \/ CriticEnd
    \/ FixerStart
    \/ FixerChunk
    \/ FixerEnd
    \/ VisualizerStart
    \/ VisualizerDone
    \/ IacGeneratorStart
    \/ IacGeneratorChunk
    \/ IacGeneratorEnd
    \/ PipelineComplete
    \/ InvocationFails
    \/ InterpretDiagramStart
    \/ InterpretDiagramDone
    \/ UseTextStrategy
    \/ CritiqueStart
    \/ CritiqueDone
    \/ FixStart
    \/ FixDone
    \/ VisualizeStart
    \/ VisualizeDone
    \/ GenerateIacStart
    \/ GenerateIacDone
    \/ MainComplete
    \/ RunFails

\* The runs in which the event loop resumes the coroutine whenever it can go
\* on, and every engine call answers, ends its stream or fails.
\* The runs followed to their end: a non-empty text or a local image, and
\* for the refactored pipeline the role table the repository ships.
InitLive ==
    /\ Init
    /\ variant = "refactored" => agent_config = agent_prompts_yaml
    /\ ~ImageRunAtStart =>
           (IF variant = "original" THEN input_data ELSE input_strategy.arg) # <<>>
    /\ image_path \in {<<>>} \cup {path \in ImagePaths : path[1] = "/local/"}

SpecLive == InitLive /\ [][Next]_vars /\ WF_vars(Progress)

\* ------------------------------------------------------------------ the factory alone
\* Most create_agent calls made on one factory.
MaxCalls == 1

\* The instructions a role table can hold.
Instructions == {<<"i1">>, <<"i2">>}

\* Every role table: any roles, any instructions, any uses_mcp flags.
FactoryConfigs ==
    UNION {[D -> [instructions : Instructions, uses_mcp : BOOLEAN]] :
              D \in SUBSET AgentRole}

\* factory.create_agent(role) on the refactored factory, for any role.
CreateAgent ==
    /\ variant = "factory"
    /\ Len(requested) < MaxCalls
    /\ outcome.kind = "pending"
    /\ \E role \in AgentRole :
          LET made == create_agent_refactored(agent_config, role)
          IN  /\ requested' = Append(requested, role)
              /\ IF made.raised # None
                 THEN /\ outcome' = Raised(made.raised[1])
                      /\ UNCHANGED created
                 ELSE /\ created' = Append(created, made.agent)
                      /\ UNCHANGED outcome
    /\ UNCHANGED <<inputs, main_vars, saved, results, pc, local, parts,
                   invoked, emitted, yielded, stdout, now, files, completed,
                   loop>>

InitFactory ==
    /\ variant = "factory"
    /\ environ = EnvironOf(FALSE, <<>>)
    /\ demo_config = NoConfig
    /\ calls = <<>>
    /\ loop = Idle
    /\ use_image_mode = FALSE
    /\ is_image = FALSE
    /\ image_path = <<>>
    /\ input_data = <<>>
    /\ mcp = MCPStreamableHTTPTool
    /\ main_pc = "start"
    /\ input_strategy = NoStrategy
    /\ agent_config \in FactoryConfigs
    /\ results = NoResults
    /\ requested = <<>>
    /\ pc = "factory"
    /\ local = [name \in LocalNames |-> Unset]
    /\ parts = <<>>
    /\ created = <<>>
    /\ invoked = <<>>
    /\ emitted = <<>>
    /\ yielded = 0
    /\ stdout = <<>>
    /\ now = 0
    /\ files = {}
    /\ saved = <<>>
    /\ completed = <<>>
    /\ outcome = Pending

NextFactory == CreateAgent

SpecFactory == InitFactory /\ [][NextFactory]_vars

\* ------------------------------------------------------------------ the output directory shared
\* Most artifacts one run saves.
MaxSaves == 2

\* The step names run_sequential_workflow saves under, in its order.
SavedSteps ==
    <<"step1_critic", "step2_fixer", "step3_mermaid_diagram", "step4_bicep">>

\* The final texts a stage can end with.
StageTexts == {<<>>, <<"a">>}

\* A run ends its next saving stage: save_response_to_file(step, text).
\* Here pc[run] counts the artifacts the run has saved.
RunSaves ==
    /\ variant = "store"
    /\ \E run \in Runs :
          /\ pc[run] < MaxSaves
          /\ pc[run] < Len(SavedSteps)
          /\ \E content \in StageTexts :
                save_response_to_file(run, SavedSteps[pc[run] + 1], content,
                                      stdout)
          /\ pc' = [pc EXCEPT ![run] = @ + 1]
    /\ UNCHANGED <<inputs, main_vars, results, requested, local, parts,
                   created, invoked, emitted, yielded, now, completed,
                   outcome, loop>>

\* A second passes between two saves.
StoreTick ==
    /\ variant = "store"
    /\ now < MaxClock
    /\ now' = now + 1
    /\ UNCHANGED <<inputs, main_vars, saved, results, requested, pc, local,
                   parts, created, invoked, emitted, yielded, stdout, files,
                   completed, outcome, loop>>

InitStore ==
    /\ variant = "store"
    /\ environ = EnvironOf(FALSE, <<>>)
    /\ demo_config = NoConfig
    /\ calls = <<>>
    /\ loop = Idle
    /\ use_image_mode = FALSE
    /\ is_image = FALSE
    /\ image_path = <<>>
    /\ input_data = <<>>
    /\ input_strategy = NoStrategy
    /\ agent_config = Restrict(agent_prompts_yaml, {})
    /\ mcp = MCPStreamableHTTPTool
    /\ main_pc = "start"
    /\ results = NoResults
    /\ requested = <<>>
    /\ pc = [run \in Runs |-> 0]
    /\ local = [name \in LocalNames |-> Unset]
    /\ parts = <<>>
    /\ created = <<>>
    /\ invoked = <<>>
    /\ emitted = <<>>
    /\ yielded = 0
    /\ stdout = <<>>
    /\ now = 0
    /\ files = {}
    /\ saved = <<>>
    /\ completed = <<>>
    /\ outcome = Pending

NextStore == RunSaves \/ StoreTick

SpecStore == InitStore /\ [][NextStore]_vars

\* ------------------------------------------------------------------ main's choice of input
\* create_input_strategy choosing the image whenever the switch is on.
create_input_strategy_switch_only(config) ==
    IF config.use_image_mode
    THEN ImageInputStrategy(config.image_path)
    ELSE TextInputStrategy(demo_architecture)

\* create_input_strategy(config)
create_input_strategy(config) ==
    IF config.use_image_mode /\ Truthy(config.image_path)
    THEN ImageInputStrategy(config.image_path)
    ELSE TextInputStrategy(demo_architecture)

\* Path(image_path).exists()
exists(path) == path \in ReadableFiles

\* AgentFactory.create_agent of the step7 workshop demo.
create_agent_step7(role) ==
    LET tools == IF role \notin {VISUALIZER, DIAGRAM_INTERPRETER}
                 THEN <<mcp_tool>> ELSE <<>>
    IN  [chat_client |-> chat_client,
         instructions |-> prompts[role],
         name |-> role,
         tools |-> tools]

\* main() reads the environment and settles the mode. The original main()
\* branches on `use_image_mode and image_path`, the refactored one builds
\* its config and input strategy, step7 only looks up the image path. (The
\* original and step7 do so inside the `async with`; the lookups touch
\* nothing the tool's entry does.)
LoadEnvironment ==
    /\ pc = "env"
    /\ LET env == from_env(environ)
       IN  CASE variant = "original" ->
                  /\ use_image_mode' = env.use_image_mode
                  /\ image_path' = env.image_path
                  /\ is_image' = (env.use_image_mode
                                  /\ Truthy(env.image_path))
                  /\ input_data' = (IF is_image' THEN Unset
                                    ELSE demo_architecture)
                  /\ UNCHANGED <<input_strategy, demo_config>>
             [] variant = "refactored" ->
                  /\ demo_config' = from_env(environ)
                  /\ use_image_mode' = demo_config'.use_image_mode
                  /\ image_path' = demo_config'.image_path
                  /\ input_strategy' = create_input_strategy(demo_config')
                  /\ UNCHANGED <<is_image, input_data>>
             [] variant = "step7" ->
                  /\ image_path' = getenv(environ, "ARCHITECTURE_IMAGE_PATH",
                                          None)
                  /\ UNCHANGED <<use_image_mode, is_image, input_data,
                                 input_strategy, demo_config>>
    /\ pc' = "main"
    /\ UNCHANGED <<variant, environ, calls, agent_config, mcp, main_pc, saved,
                   results, requested, local, parts, created, invoked,
                   emitted, yielded, stdout, now, files, completed, outcome,
                   loop>>

\* main() of step7 enters the tool and picks the mode: image mode when the
\* path is set and exists, text mode with the example text otherwise.
Step7Enter ==
    /\ variant = "step7"
    /\ pc = "main"
    /\ main_pc = "start"
    /\ main_pc' = "running"
    /\ mcp' = [mcp EXCEPT !.entered = @ + 1]
    /\ is_image' = (Truthy(image_path) /\ exists(image_path))
    /\ IF is_image'
       THEN pc' = "s7_image" /\ UNCHANGED input_data
       ELSE pc' = "s7_text" /\ input_data' = demo_architecture
    /\ UNCHANGED <<variant, environ, calls, demo_config, use_image_mode,
                   image_path, input_strategy, agent_config, saved, results,
                   requested, local, parts, created, invoked, emitted,
                   yielded, stdout, now, files, completed, outcome, loop>>

\* create_agent(role) and agent.run(prompt) of a step7 stage.
Step7Invoke(role, prompt, title, next) ==
    /\ requested' = Append(requested, role)
    /\ LET agent == create_agent_step7(role)
       IN  /\ created' = Append(created, agent)
           /\ invoked' = Append(invoked,
                  [role |-> agent.name, prompt |-> prompt,
                   tools |-> agent.tools, streamed |-> FALSE,
                   connected |-> is_connected(mcp)])
    /\ stdout' = printed(stdout, "banner", <<title>>)
    /\ pc' = next

\* run_image_mode up to its await: the interpreter is created, the image
\* made a reference (http/https) or read from the file, and handed over.
Step7InterpreterStart ==
    /\ variant = "step7"
    /\ pc = "s7_image"
    /\ IF startswith(image_path, {"http://", "https://"})
       THEN /\ input_data' = UriContent
            /\ Step7Invoke(DIAGRAM_INTERPRETER, UriContent,
                           "STEP 0: Diagram Interpreter (Image -> Text)",
                           "s7_0_await")
            /\ UNCHANGED outcome
       ELSE IF image_path \in ReadableFiles
            THEN /\ input_data' = DataContent
                 /\ Step7Invoke(DIAGRAM_INTERPRETER, DataContent,
                                "STEP 0: Diagram Interpreter (Image -> Text)",
                                "s7_0_await")
                 /\ UNCHANGED outcome
            ELSE /\ requested' = Append(requested, DIAGRAM_INTERPRETER)
                 /\ created' = Append(created,
                                      create_agent_step7(DIAGRAM_INTERPRETER))
                 /\ stdout' = printed(stdout, "banner",
                        <<"STEP 0: Diagram Interpreter (Image -> Text)">>)
                 /\ outcome' = Raised("ImageLoadFailure")
                 /\ pc' = "raised"
                 /\ UNCHANGED <<input_data, invoked>>
    /\ UNCHANGED <<inputs, mcp, main_pc, saved, results, local, parts,
                   emitted, yielded, now, files, completed, loop>>

\* run_text_pipeline up to its first await: the input is shown, the critic
\* created and run on the architecture text.
Step7CriticStart ==
    /\ variant = "step7"
    /\ pc = "s7_text"
    /\ requested' = Append(requested, CRITIC)
    /\ LET agent == create_agent_step7(CRITIC)
       IN  /\ created' = Append(created, agent)
           /\ invoked' = Append(invoked,
                  [role |-> agent.name, prompt |-> input_data,
                   tools |-> agent.tools, streamed |-> FALSE,
                   connected |-> is_connected(mcp)])
    /\ stdout' = printed(printed(printed(stdout, "banner",
                                         <<"INPUT ARCHITECTURE">>),
                                 "text", input_data),
                         "banner", <<"STEP 1: Architecture Critic">>)
    /\ local' = [local EXCEPT !["architecture_text"] = input_data]
    /\ pc' = "s7_1_await"
    /\ UNCHANGED <<inputs, main_vars, saved, results, parts, emitted, yielded,
                   now, files, completed, outcome, loop>>

\* Every main() from its start to the first call of the completion engine.
InitMain ==
    /\ variant \in {"original", "refactored", "step7"}
    /\ environ \in Environs
    /\ demo_config = NoConfig
    /\ calls = <<>>
    /\ loop = Idle
    /\ use_image_mode = FALSE
    /\ is_image = FALSE
    /\ image_path = <<>>
    /\ input_data = Unset
    /\ input_strategy = NoStrategy
    /\ agent_config = agent_prompts_yaml
    /\ mcp = MCPStreamableHTTPTool
    /\ main_pc = "start"
    /\ results = NoResults
    /\ requested = <<>>
    /\ pc = "env"
    /\ local = [name \in LocalNames |-> Unset]
    /\ parts = <<>>
    /\ created = <<>>
    /\ invoked = <<>>
    /\ emitted = <<>>
    /\ yielded = 0
    /\ stdout = <<>>
    /\ now = 0
    /\ files = {}
    /\ saved = <<>>
    /\ completed = <<>>
    /\ outcome = Pending

NextMain ==
    \/ LoadEnvironment
    \/ MainEnter
    \/ SetupDependencies
    \/ Step7Enter
    \/ InterpreterStart
    \/ TextInput
    \/ CriticStart
    \/ InterpretDiagramStart
    \/ UseTextStrategy
    \/ CritiqueStart
    \/ Step7InterpreterStart
    \/ Step7CriticStart

SpecMain == InitMain /\ [][NextMain]_vars

\* ------------------------------------------------------------------ the helpers on their own
\* The input strategies, the two text extractors, the DemoConfig and the two
\* factories, each called directly as the unit tests call them.

\* Most calls made on one strategy, and most assignments made on one config.
MaxAsks == 3

\* The strategies a caller constructs.
Strategies ==
    {TextInputStrategy(text) : text \in SeqsUpTo(Tokens, 2)}
        \cup {ImageInputStrategy(path) : path \in ImagePaths}

\* The responses handed to the original last_text: it is given an object
\* with a message list, and looks only at its text attribute.
OriginalResponses ==
    [messages : SeqsUpTo(Messages, MaxMessages), text : ChunkTexts \cup {NoAttr}]

\* The values a caller assigns to a field of a DemoConfig.
FieldValues ==
    [openai_api_key |-> {<<"new-key">>},
     openai_model |-> {<<"gpt-4o">>, <<"gpt-4o-mini">>},
     use_image_mode |-> BOOLEAN,
     image_path |-> {<<>>, <<"/local/", "diagram.png">>},
     mcp_endpoint |-> {<<"http://localhost/mcp">>}]

\* strategy.requires_interpretation()
AskRequiresInterpretation ==
    /\ variant = "strategy"
    /\ Len(calls) < MaxAsks
    /\ calls' = Append(calls, [op |-> "requires_interpretation",
                               on |-> input_strategy,
                               answer |-> requires_interpretation(input_strategy)])
    /\ UNCHANGED <<variant, environ, use_image_mode, is_image, image_path,
                   input_strategy, agent_config, demo_config, main_vars,
                   results, requested, pc, local, parts, created, invoked,
                   emitted, yielded, stdout, now, files, saved, completed,
                   outcome, loop>>

\* strategy.get_input()
AskGetInput ==
    /\ variant = "strategy"
    /\ Len(calls) < MaxAsks
    /\ calls' = Append(calls, [op |-> "get_input",
                               on |-> input_strategy,
                               answer |-> get_input(input_strategy)])
    /\ UNCHANGED <<variant, environ, use_image_mode, is_image, image_path,
                   input_strategy, agent_config, demo_config, main_vars,
                   results, requested, pc, local, parts, created, invoked,
                   emitted, yielded, stdout, now, files, saved, completed,
                   outcome, loop>>

\* extract_last_text(response), on any response.
CallExtractLastText ==
    /\ variant = "helpers"
    /\ calls = <<>>
    /\ loop = Idle
    /\ \E response \in MessageResponses :
          calls' = <<[op |-> "extract_last_text",
                      on |-> response,
                      answer |-> extract_last_text(response)]>>
    /\ UNCHANGED <<variant, environ, use_image_mode, is_image, image_path,
                   input_strategy, agent_config, demo_config, main_vars,
                   results, requested, pc, local, parts, created, invoked,
                   emitted, yielded, stdout, now, files, saved, completed,
                   outcome, loop>>

\* last_text(response), on any response.
CallLastText ==
    /\ variant = "helpers"
    /\ calls = <<>>
    /\ loop = Idle
    /\ \E response \in OriginalResponses :
          calls' = <<[op |-> "last_text",
                      on |-> response,
                      answer |-> last_text(response)]>>
    /\ UNCHANGED <<variant, environ, use_image_mode, is_image, image_path,
                   input_strategy, agent_config, demo_config, main_vars,
                   results, requested, pc, local, parts, created, invoked,
                   emitted, yielded, stdout, now, files, saved, completed,
                   outcome, loop>>

\* config.<field> = value on a DemoConfig: the class is a plain @dataclass,
\* so the attribute is set and nothing is raised.
setattr(config, field, value) ==
    [raised |-> None, config |-> [config EXCEPT ![field] = value]]

AssignField ==
    /\ variant = "config"
    /\ Len(calls) < MaxAsks
    /\ \E field \in DOMAIN demo_config :
          \E value \in FieldValues[field] :
             LET done == setattr(demo_config, field, value)
             IN  /\ demo_config' = done.config
                 /\ calls' = Append(calls, [op |-> "setattr",
                                            on |-> demo_config,
                                            field |-> field,
                                            answer |-> done.raised])
    /\ UNCHANGED <<variant, environ, use_image_mode, is_image, image_path,
                   input_strategy, agent_config, main_vars, results,
                   requested, pc, local, parts, created, invoked, emitted,
                   yielded, stdout, now, files, saved, completed, outcome,
                   loop>>

\* The role tables the refactored factory is built with here: the shipped
\* one, and one that lacks the interpreter.
CalledConfigs ==
    {agent_prompts_yaml,
     Restrict(agent_prompts_yaml, AgentRole \ {DIAGRAM_INTERPRETER})}

\* create_agent of the original factory running the new agent once before
\* handing it back.
CallCreateAgent_warms_up ==
    /\ variant = "factories"
    /\ Len(calls) < MaxAsks
    /\ \E role \in AgentRole :
          LET agent == create_agent(role)
          IN  /\ requested' = Append(requested, role)
              /\ created' = Append(created, agent)
              /\ invoked' = Append(invoked,
                     [role |-> agent.name, prompt |-> <<>>,
                      tools |-> agent.tools, streamed |-> FALSE,
                      connected |-> is_connected(mcp)])
              /\ calls' = Append(calls, [op |-> "create_agent",
                                         on |-> "original",
                                         answer |-> <<agent>>])
    /\ UNCHANGED <<variant, environ, use_image_mode, is_image, image_path,
                   input_strategy, agent_config, demo_config, main_vars,
                   loop, results, pc, local, parts, emitted, yielded, stdout,
                   now, files, saved, completed, outcome>>

\* factory.create_agent(role) on the original factory, for any role.
CallCreateAgent ==
    /\ variant = "factories"
    /\ Len(calls) < MaxAsks
    /\ \E role \in AgentRole :
          LET agent == create_agent(role)
          IN  /\ requested' = Append(requested, role)
              /\ created' = Append(created, agent)
              /\ calls' = Append(calls, [op |-> "create_agent",
                                         on |-> "original",
                                         answer |-> <<agent>>])
    /\ UNCHANGED <<variant, environ, use_image_mode, is_image, image_path,
                   input_strategy, agent_config, demo_config, main_vars,
                   loop, results, pc, local, parts, invoked, emitted, yielded,
                   stdout, now, files, saved, completed, outcome>>

\* factory.create_agent(role) on the refactored factory, for any role; a
\* role the table lacks raises, and the factory can be called again.
CallCreateAgentRefactored ==
    /\ variant = "factories"
    /\ Len(calls) < MaxAsks
    /\ \E role \in AgentRole :
          LET made == create_agent_refactored(agent_config, role)
          IN  /\ requested' = Append(requested, role)
              /\ IF made.raised # None
                 THEN /\ UNCHANGED created
                      /\ calls' = Append(calls, [op |-> "create_agent",
                                                 on |-> "refactored",
                                                 answer |-> <<>>])
                 ELSE /\ created' = Append(created, made.agent)
                      /\ calls' = Append(calls, [op |-> "create_agent",
                                                 on |-> "refactored",
                                                 answer |-> <<made.agent>>])
    /\ UNCHANGED <<variant, environ, use_image_mode, is_image, image_path,
                   input_strategy, agent_config, demo_config, main_vars,
                   loop, results, pc, local, parts, invoked, emitted, yielded,
                   stdout, now, files, saved, completed, outcome>>

InitCalls ==
    /\ variant \in {"strategy", "helpers", "config", "factories"}
    /\ environ \in (IF variant = "config" THEN Environs
                    ELSE {EnvironOf(FALSE, <<>>)})
    /\ demo_config = (IF variant = "config" THEN from_env(environ)
                      ELSE NoConfig)
    /\ input_strategy \in (IF variant = "strategy" THEN Strategies
                           ELSE {NoStrategy})
    /\ calls = <<>>
    /\ loop = Idle
    /\ use_image_mode = FALSE
    /\ is_image = FALSE
    /\ image_path = <<>>
    /\ input_data = <<>>
    /\ agent_config \in (IF variant = "factories" THEN CalledConfigs
                         ELSE {Restrict(agent_prompts_yaml, {})})
    /\ mcp = MCPStreamableHTTPTool
    /\ main_pc = "start"
    /\ results = NoResults
    /\ requested = <<>>
    /\ pc = "helpers"
    /\ local = [name \in LocalNames |-> Unset]
    /\ parts = <<>>
    /\ created = <<>>
    /\ invoked = <<>>
    /\ emitted = <<>>
    /\ yielded = 0
    /\ stdout = <<>>
    /\ now = 0
    /\ files = {}
    /\ saved = <<>>
    /\ completed = <<>>
    /\ outcome = Pending

NextCalls ==
    \/ AskRequiresInterpretation
    \/ AskGetInput
    \/ CallExtractLastText
    \/ CallLastText
    \/ AssignField
    \/ CallCreateAgent
    \/ CallCreateAgentRefactored

SpecCalls == InitCalls /\ [][NextCalls]_vars

\* ------------------------------------------------------------------ two runs on one event loop
\* Two calls of AgentPipeline.run on one pipeline, resumed in any order at
\* their awaits. Each call has its own results dict and architecture_text;
\* the pipeline, its factory and the standard output are the same for both.
\* Here pc, local, results, invoked, completed, outcome and input_strategy
\* hold one value per run.

\* Most times the event loop goes from one run to the other.
MaxSwitches == 2

\* What the engine answers a stage with.
PairResponses ==
    {[messages |-> <<[role |-> "assistant", content |-> <<token>>]>>] :
        token \in Tokens}

\* The inputs the two runs are started with: a text each.
PairStrategies ==
    {[run \in Runs |-> TextInputStrategy(IF run = self THEN <<"t">> ELSE <<>>)]}

\* The event loop after resuming `run`.
Resumed(run) ==
    [last |-> run,
     switches |-> IF loop.last \in {"", run} THEN loop.switches
                  ELSE loop.switches + 1]

\* The four steps of run after step 0, by where the run is.
StepAt ==
    [r1 |-> [title |-> "STEP 1: Architecture Critic", role |-> CRITIC,
             key |-> "critique", await |-> "r1_await", next |-> "r2"],
     r2 |-> [title |-> "STEP 2: Architecture Fixer", role |-> FIXER,
             key |-> "improved", await |-> "r2_await", next |-> "r3"],
     r3 |-> [title |-> "STEP 3: Diagram Visualizer", role |-> VISUALIZER,
             key |-> "diagram", await |-> "r3_await", next |-> "r4"],
     r4 |-> [title |-> "STEP 4: IaC Generator", role |-> IAC_GENERATOR,
             key |-> "iac", await |-> "r4_await", next |-> "r_return"]]

\* The step a run is awaiting the answer of.
AwaitedStep(run) ==
    IF pc[run] = "r0_await"
    THEN [role |-> DIAGRAM_INTERPRETER, key |-> "interpretation", next |-> "r1"]
    ELSE LET at == CHOOSE at \in DOMAIN StepAt : StepAt[at].await = pc[run]
         IN  [role |-> StepAt[at].role, key |-> StepAt[at].key,
              next |-> StepAt[at].next]

\* The argument run passes to the step method at `at`.
PromptAt(run, at) ==
    CASE at = "r1" -> local[run]["architecture_text"]
      [] at = "r2" -> FixerPrompt(local[run]["architecture_text"],
                                  results[run]["critique"])
      [] at = "r3" -> results[run]["improved"]
      [] at = "r4" -> results[run]["improved"]

\* A step method of one run up to its await.
PairStepStart(run, title, role, prompt, next) ==
    /\ stdout' = printed(stdout, "banner", <<title>>)
    /\ requested' = Append(requested, role)
    /\ LET made == create_agent_refactored(agent_config, role)
       IN  IF made.raised # None
           THEN /\ outcome' = [outcome EXCEPT ![run] = Raised(made.raised[1])]
                /\ pc' = [pc EXCEPT ![run] = "raised"]
                /\ UNCHANGED <<created, invoked>>
           ELSE /\ created' = Append(created, made.agent)
                /\ invoked' = [invoked EXCEPT ![run] = Append(@,
                       [role |-> made.agent.name, prompt |-> prompt,
                        tools |-> made.agent.tools, streamed |-> FALSE,
                        connected |-> is_connected(mcp)])]
                /\ pc' = [pc EXCEPT ![run] = next]
                /\ UNCHANGED outcome

\* The rest of a step method keeping its result in a dict that the two runs
\* share.
PairStepDone_shared(run, role, key, next) ==
    /\ \E response \in PairResponses :
          LET text == extract_last_text(response)
          IN  /\ stdout' = printed(stdout, "text", text)
              /\ results' = [other \in Runs |-> [results[other] EXCEPT ![key] = text]]
              /\ completed' = [completed EXCEPT ![run] = Append(@,
                     [roleId |-> role, text |-> text,
                      sequenceIndex |-> Len(completed[run]) + 1])]
              /\ IF key = "interpretation"
                 THEN local' = [local EXCEPT ![run]["architecture_text"] = text]
                 ELSE UNCHANGED local
    /\ pc' = [pc EXCEPT ![run] = next]

\* The rest of a step method of one run and the assignment of its result.
PairStepDone(run, role, key, next) ==
    /\ \E response \in PairResponses :
          LET text == extract_last_text(response)
          IN  /\ stdout' = printed(stdout, "text", text)
              /\ results' = [results EXCEPT ![run][key] = text]
              /\ completed' = [completed EXCEPT ![run] = Append(@,
                     [roleId |-> role, text |-> text,
                      sequenceIndex |-> Len(completed[run]) + 1])]
              /\ IF key = "interpretation"
                 THEN local' = [local EXCEPT ![run]["architecture_text"] = text]
                 ELSE UNCHANGED local
    /\ pc' = [pc EXCEPT ![run] = next]

\* Step 0 of one run: the interpreter on an image, the text itself otherwise.
PairEntry ==
    /\ variant = "pair"
    /\ \E run \in Runs :
          /\ pc[run] = "entry"
          /\ Resumed(run).switches <= MaxSwitches
          /\ loop' = Resumed(run)
          /\ IF requires_interpretation(input_strategy[run])
             THEN /\ PairStepStart(run, "STEP 0: Diagram Interpreter",
                                   DIAGRAM_INTERPRETER,
                                   get_input(input_strategy[run]).value,
                                   "r0_await")
                  /\ UNCHANGED <<results, local>>
             ELSE LET text == get_input(input_strategy[run]).value
                  IN  /\ local' = [local EXCEPT
                                      ![run]["architecture_text"] = text]
                      /\ results' = [results EXCEPT ![run]["input"] = text]
                      /\ pc' = [pc EXCEPT ![run] = "r1"]
                      /\ UNCHANGED <<requested, created, invoked, stdout,
                                     outcome>>
    /\ UNCHANGED <<inputs, main_vars, saved, parts, emitted, yielded, now,
                   files, completed>>

\* One run entering its next step method.
PairStart ==
    /\ variant = "pair"
    /\ \E run \in Runs :
          /\ pc[run] \in DOMAIN StepAt
          /\ Resumed(run).switches <= MaxSwitches
          /\ loop' = Resumed(run)
          /\ PairStepStart(run, StepAt[pc[run]].title, StepAt[pc[run]].role,
                           PromptAt(run, pc[run]), StepAt[pc[run]].await)
    /\ UNCHANGED <<inputs, main_vars, saved, results, local, parts, emitted,
                   yielded, now, files, completed>>

\* The engine answers the step one run is awaiting.
PairDone ==
    /\ variant = "pair"
    /\ \E run \in Runs :
          /\ pc[run] \in AwaitingRefactored
          /\ Resumed(run).switches <= MaxSwitches
          /\ loop' = Resumed(run)
          /\ PairStepDone(run, AwaitedStep(run).role, AwaitedStep(run).key,
                          AwaitedStep(run).next)
    /\ UNCHANGED <<inputs, main_vars, saved, requested, parts, created,
                   invoked, emitted, yielded, now, files, outcome>>

\* The engine fails the step one run is awaiting.
PairFails ==
    /\ variant = "pair"
    /\ \E run \in Runs :
          /\ pc[run] \in AwaitingRefactored
          /\ Resumed(run).switches <= MaxSwitches
          /\ loop' = Resumed(run)
          /\ \E error \in EngineErrors :
                outcome' = [outcome EXCEPT ![run] = Raised(error)]
          /\ pc' = [pc EXCEPT ![run] = "raised"]
    /\ UNCHANGED <<inputs, main_vars, saved, results, requested, local, parts,
                   created, invoked, emitted, yielded, stdout, now, files,
                   completed>>

\* return results
PairReturn ==
    /\ variant = "pair"
    /\ \E run \in Runs :
          /\ pc[run] = "r_return"
          /\ Resumed(run).switches <= MaxSwitches
          /\ loop' = Resumed(run)
          /\ outcome' = [outcome EXCEPT ![run] = Returned(results[run])]
          /\ pc' = [pc EXCEPT ![run] = "returned"]
    /\ UNCHANGED <<inputs, main_vars, saved, results, requested, local, parts,
                   created, invoked, emitted, yielded, stdout, now, files,
                   completed>>

InitPair ==
    /\ variant = "pair"
    /\ environ = EnvironOf(FALSE, <<>>)
    /\ demo_config = NoConfig
    /\ calls = <<>>
    /\ loop = Idle
    /\ use_image_mode = FALSE
    /\ is_image = FALSE
    /\ image_path = <<>>
    /\ input_data = <<>>
    /\ input_strategy \in PairStrategies
    /\ agent_config = agent_prompts_yaml
    /\ mcp = MCPStreamableHTTPTool
    /\ main_pc = "start"
    /\ results = [run \in Runs |-> NoResults]
    /\ requested = <<>>
    /\ pc = [run \in Runs |-> "entry"]
    /\ local = [run \in Runs |-> [name \in LocalNames |-> Unset]]
    /\ parts = <<>>
    /\ created = <<>>
    /\ invoked = [run \in Runs |-> <<>>]
    /\ emitted = <<>>
    /\ yielded = 0
    /\ stdout = <<>>
    /\ now = 0
    /\ files = {}
    /\ saved = <<>>
    /\ completed = [run \in Runs |-> <<>>]
    /\ outcome = [run \in Runs |-> Pending]

NextPair == PairEntry \/ PairStart \/ PairDone \/ PairFails \/ PairReturn

SpecPair == InitPair /\ [][NextPair]_vars

\* ------------------------------------------------------------------ the workshop steps
\* main() of workshop steps 1 to 6: the same pipeline grown one piece at a
\* time, on a hard-coded architecture, every stage a plain agent.run.
WorkshopSteps == {"step1", "step2", "step3", "step4", "step5", "step6"}

\* The stages main() of a step goes through.
StagesOf(step) ==
    CASE step = "step1" -> <<CRITIC>>
      [] step \in {"step2", "step3", "step4"} -> <<CRITIC, FIXER>>
      [] step = "step5" -> <<CRITIC, FIXER, VISUALIZER>>
      [] step = "step6" -> <<CRITIC, FIXER, VISUALIZER, IAC_GENERATOR>>

\* Whether main() of a step opens the MCP tool around its stages.
OpensTool(step) == step \in {"step4", "step5", "step6"}

\* get_text(response) of steps 2 to 6.
get_text(response) ==
    IF response.text # NoAttr /\ Truthy(response.text) THEN response.text ELSE <<>>

\* The agents of a step with the MCP tool attached to every one of them.
create_agent_workshop_all_tools(step, role) ==
    [chat_client |-> chat_client,
     instructions |-> <<role, step>>,
     name |-> role,
     tools |-> IF OpensTool(step) THEN <<mcp_tool>> ELSE <<>>]

\* The agent a step builds for a role: ChatAgent(...) without tools in steps
\* 1 to 3, with the tool for every role in step 4, and for every role but
\* the visualizer in steps 5 and 6.
create_agent_workshop(step, role) ==
    [chat_client |-> chat_client,
     instructions |-> <<role, step>>,
     name |-> role,
     tools |-> CASE step \in {"step1", "step2", "step3"} -> <<>>
                 [] step = "step4" -> <<mcp_tool>>
                 [] step \in {"step5", "step6"} ->
                        IF role # VISUALIZER THEN <<mcp_tool>> ELSE <<>>]

\* The local a stage's text is kept in.
LocalOf(role) ==
    CASE role = CRITIC -> "critique"
      [] role = FIXER -> "improved"
      [] role = VISUALIZER -> "diagram"
      [] role = IAC_GENERATOR -> "bicep"

\* The argument of agent.run for a role.
WorkshopPrompt(role) ==
    CASE role = CRITIC -> local["architecture_text"]
      [] role = FIXER -> FixerPrompt(local["architecture_text"],
                                     local["critique"])
      [] role = VISUALIZER -> local["improved"]
      [] role = IAC_GENERATOR -> local["improved"]

\* main() up to its first stage: the tool is entered where the step has
\* one, and the architecture is printed.
WorkshopEnter ==
    /\ variant \in WorkshopSteps
    /\ pc = "main"
    /\ main_pc = "start"
    /\ main_pc' = "running"
    /\ mcp' = (IF OpensTool(variant) THEN [mcp EXCEPT !.entered = @ + 1]
               ELSE mcp)
    /\ local' = [local EXCEPT !["architecture_text"] = input_data]
    /\ stdout' = printed(printed(stdout, "banner", <<"INPUT ARCHITECTURE">>),
                         "text", input_data)
    /\ pc' = "w_start"
    /\ UNCHANGED <<inputs, input_data, saved, results, requested, parts,
                   created, invoked, emitted, yielded, now, files, completed,
                   outcome, loop>>

\* A stage up to its await: banner, the agent, agent.run(prompt).
WorkshopStart ==
    /\ variant \in WorkshopSteps
    /\ pc = "w_start"
    /\ LET role == StagesOf(variant)[Len(completed) + 1]
           agent == create_agent_workshop(variant, role)
       IN  /\ stdout' = printed(stdout, "banner", <<role>>)
           /\ requested' = Append(requested, role)
           /\ created' = Append(created, agent)
           /\ invoked' = Append(invoked,
                  [role |-> agent.name, prompt |-> WorkshopPrompt(role),
                   tools |-> agent.tools, streamed |-> FALSE,
                   connected |-> is_connected(mcp)])
    /\ pc' = "w_await"
    /\ UNCHANGED <<inputs, main_vars, saved, results, local, parts, emitted,
                   yielded, now, files, completed, outcome, loop>>

\* The engine answers: the text is taken with get_text (step 1 prints
\* response.text as it is), kept and printed.
WorkshopDone ==
    /\ variant \in WorkshopSteps
    /\ pc = "w_await"
    /\ \E response \in Responses :
          LET role == StagesOf(variant)[Len(completed) + 1]
              text == IF variant = "step1" THEN response.text
                      ELSE get_text(response)
          IN  IF text = NoAttr
              THEN /\ outcome' = Raised("AttributeError")
                   /\ pc' = "raised"
                   /\ UNCHANGED <<local, stdout, completed>>
              ELSE /\ local' = [local EXCEPT ![LocalOf(role)] = text]
                   /\ stdout' = printed(stdout, "text", text)
                   /\ completed' = Append(completed, StageResult(role, text))
                   /\ pc' = (IF Len(completed') = Len(StagesOf(variant))
                             THEN "w_done" ELSE "w_start")
                   /\ UNCHANGED outcome
    /\ UNCHANGED <<inputs, main_vars, saved, results, requested, parts,
                   created, invoked, emitted, yielded, now, files, loop>>

\* The engine call raises: nothing in main() catches it.
WorkshopFails ==
    /\ variant \in WorkshopSteps
    /\ pc = "w_await"
    /\ \E error \in EngineErrors : outcome' = Raised(error)
    /\ pc' = "raised"
    /\ UNCHANGED <<inputs, main_vars, saved, results, requested, local, parts,
                   created, invoked, emitted, yielded, stdout, now, files,
                   completed, loop>>

\* The closing line of main().
WorkshopComplete ==
    /\ variant \in WorkshopSteps
    /\ pc = "w_done"
    /\ stdout' = printed(stdout, "banner", <<"Pipeline complete!">>)
    /\ outcome' = Returned(NoResults)
    /\ pc' = "returned"
    /\ UNCHANGED <<inputs, main_vars, saved, results, requested, local, parts,
                   created, invoked, emitted, yielded, now, files, completed,
                   loop>>

\* main() is left, by its last line or by an exception: the `async with`
\* of steps 4 to 6 exits the tool.
WorkshopExit ==
    /\ variant \in WorkshopSteps
    /\ pc \in Ended
    /\ main_pc = "running"
    /\ main_pc' = "exited"
    /\ mcp' = (IF OpensTool(variant) THEN [mcp EXCEPT !.exited = @ + 1]
               ELSE mcp)
    /\ UNCHANGED <<inputs, input_data, saved, results, requested, pc, local,
                   parts, created, invoked, emitted, yielded, stdout, now,
                   files, completed, outcome, loop>>

InitWorkshop ==
    /\ variant \in WorkshopSteps
    /\ environ = EnvironOf(FALSE, <<>>)
    /\ demo_config = NoConfig
    /\ calls = <<>>
    /\ loop = Idle
    /\ use_image_mode = FALSE
    /\ is_image = FALSE
    /\ image_path = <<>>
    /\ input_data = demo_architecture
    /\ input_strategy = NoStrategy
    /\ agent_config = Restrict(agent_prompts_yaml, {})
    /\ mcp = MCPStreamableHTTPTool
    /\ main_pc = "start"
    /\ results = NoResults
    /\ requested = <<>>
    /\ pc = "main"
    /\ local = [name \in LocalNames |-> Unset]
    /\ parts = <<>>
    /\ created = <<>>
    /\ invoked = <<>>
    /\ emitted = <<>>
    /\ yielded = 0
    /\ stdout = <<>>
    /\ now = 0
    /\ files = {}
    /\ saved = <<>>
    /\ completed = <<>>
    /\ outcome = Pending

NextWorkshop ==
    \/ WorkshopEnter
    \/ WorkshopStart
    \/ WorkshopDone
    \/ WorkshopFails
    \/ WorkshopComplete
    \/ WorkshopExit

SpecWorkshop == InitWorkshop /\ [][NextWorkshop]_vars

\* ------------------------------------------------------------------ reading the logs
\* Whether the run was given an image, read off the caller's arguments.
ImageRun ==
    IF variant = "original" THEN is_image ELSE input_strategy.type = "image"

\* The text the caller passed in text mode.
OriginalText ==
    IF variant = "original" THEN input_data ELSE input_strategy.arg

\* The image payloads a run can be handed.
AllImagePayloads ==
    ImagePayloads
    \cup {<<"ImageContent(url)">> \o path : path \in ImagePaths}
    \cup {<<"ImageContent.from_file">> \o path : path \in ImagePaths}

RolesOf(log) == [i \in 1..Len(log) |-> log[i].role]
NamesOf(agents) == [i \in 1..Len(agents) |-> agents[i].name]

TextStages == <<CRITIC, FIXER, VISUALIZER, IAC_GENERATOR>>
ImageStages == <<DIAGRAM_INTERPRETER>> \o TextStages

\* The stage results recorded for a role so far.
ResultsOf(role) ==
    {completed[i].text : i \in {j \in 1..Len(completed) : completed[j].roleId = role}}

\* The invocations made for a role so far.
InvocationsOf(role) ==
    {invoked[i] : i \in {j \in 1..Len(invoked) : invoked[j].role = role}}

RunCompleted == pc = "returned"

\* ------------------------------------------------------------------ C1
\* C1: in every run that completes, the agents created and the stages invoked
\* are exactly CRITIC, FIXER, VISUALIZER, IAC_GENERATOR in that order for a
\* text input, and the same preceded by DIAGRAM_INTERPRETER for an image
\* input; so an interpreter stage occurs iff the input is an image, once.
C1_StageOrder ==
    RunCompleted =>
        /\ RolesOf(invoked) = (IF ImageRun THEN ImageStages ELSE TextStages)
        /\ NamesOf(created) = RolesOf(invoked)
        /\ Cardinality(InvocationsOf(DIAGRAM_INTERPRETER))
              = (IF ImageRun THEN 1 ELSE 0)

C1_Witness ==
    /\ RunCompleted
    /\ ImageRun
    /\ variant = "original"
    /\ Len(invoked) = 5

\* ------------------------------------------------------------------ C2
\* C2: the prompt of the FIX stage is "Original:\n" + T + "\n\nCritique:\n" + C
\* where T is the prompt the CRITIQUE stage was invoked with and C is the
\* CRITIQUE stage's final result, in text mode and in image mode.
C2_FixPrompt ==
    \A fix \in InvocationsOf(FIXER) :
        \E crit \in InvocationsOf(CRITIC) :
            \E c \in ResultsOf(CRITIC) :
                fix.prompt = <<"Original:\n">> \o crit.prompt
                             \o <<"\n\nCritique:\n">> \o c

C2_Witness ==
    /\ ImageRun
    /\ \E fix \in InvocationsOf(FIXER) : Len(fix.prompt) = 5
    /\ \E c \in ResultsOf(CRITIC) : Len(c) = 2 /\ c[1] # c[2]

\* ------------------------------------------------------------------ C3
\* C3: the prompt of the CRITIQUE stage is the INTERPRET stage's result when
\* the run has an INTERPRET stage, and otherwise the original text input
\* unchanged; the image payload itself is never the CRITIQUE prompt.
C3_CritiquePrompt ==
    \A crit \in InvocationsOf(CRITIC) :
        /\ IF ImageRun
           THEN crit.prompt \in ResultsOf(DIAGRAM_INTERPRETER)
           ELSE crit.prompt = OriginalText
        /\ crit.prompt \notin AllImagePayloads

C3_Witness ==
    /\ ImageRun
    /\ \E crit \in InvocationsOf(CRITIC) : crit.prompt # <<>>

\* ------------------------------------------------------------------ C4
\* C4: the VISUALIZE stage and the GENERATE_IAC stage are each invoked with
\* exactly the FIX stage's final result as the whole prompt.
C4_DownstreamPrompts ==
    \A inv \in InvocationsOf(VISUALIZER) \cup InvocationsOf(IAC_GENERATOR) :
        /\ ResultsOf(FIXER) # {}
        /\ \A improved \in ResultsOf(FIXER) : inv.prompt = improved

C4_Witness ==
    /\ InvocationsOf(IAC_GENERATOR) # {}
    /\ \E improved \in ResultsOf(FIXER) : improved # <<>>
    /\ \E diagram \in ResultsOf(VISUALIZER) :
          diagram # <<>> /\ ResultsOf(FIXER) # {diagram}
    /\ \E c \in ResultsOf(CRITIC) : c # <<>>

\* ------------------------------------------------------------------ C5
\* C5: in every state of every run, an agent created for VISUALIZER or for
\* DIAGRAM_INTERPRETER has an empty tool list, and an agent created for
\* CRITIC, FIXER or IAC_GENERATOR has the grounding tool as its sole tool.
C5_ToolPolicy ==
    \A i \in 1..Len(created) :
        created[i].tools =
            (IF created[i].name \in {VISUALIZER, DIAGRAM_INTERPRETER}
             THEN <<>> ELSE <<mcp_tool>>)

\* ------------------------------------------------------------------ C6
\* C6: for every role present in the loaded role table, create_agent returns
\* an agent (it does not raise) whose tool list is exactly the injected
\* grounding handle when the role's uses_mcp flag is true and empty when it
\* is false, and whose instructions are the role's configured instructions.
C6_CreateAgentFollowsConfig ==
    /\ \A i \in 1..Len(created) :
          /\ created[i].name \in DOMAIN agent_config
          /\ created[i].tools =
                (IF agent_config[created[i].name].uses_mcp
                 THEN <<mcp_tool>> ELSE <<>>)
          /\ created[i].instructions
                = agent_config[created[i].name].instructions
    /\ \A i \in 1..Len(requested) :
          requested[i] \in DOMAIN agent_config
              => \E j \in 1..Len(created) : created[j].name = requested[i]

C6_Witness ==
    /\ variant = "factory"
    /\ Len(created) = 1
    /\ ~agent_config[created[1].name].uses_mcp
    /\ \E role \in DOMAIN agent_config :
          /\ agent_config[role].uses_mcp
          /\ agent_config[role].instructions # created[1].instructions

\* ------------------------------------------------------------------ C7
\* The roles a run needs, in the order it asks for them.
NeededRoles == IF ImageRun THEN ImageStages ELSE TextStages

MissingAt == {i \in 1..Len(NeededRoles) : NeededRoles[i] \notin DOMAIN agent_config}

\* The position of the first needed role the table lacks.
FirstMissing == CHOOSE i \in MissingAt : \A j \in MissingAt : i <= j

\* C7 as stated: if any role the run needs is not registered, no stage of
\* the run is ever invoked (the run fails before the engine is called).
C7_FailsBeforeAnyStage ==
    (variant = "refactored" /\ MissingAt # {}) => invoked = <<>>

\* C7 amended: an unregistered role makes the run fail with KeyError when the
\* run reaches the first stage whose role is missing, before the engine is
\* invoked for that stage; neither that stage nor a later one is invoked and
\* the run does not complete, but every stage before it has been invoked and
\* has completed by then.
C7_FailsAtFirstMissingStage ==
    variant = "refactored" =>
        /\ \A i \in 1..Len(invoked) :
              /\ invoked[i].role = NeededRoles[i]
              /\ invoked[i].role \in DOMAIN agent_config
        /\ MissingAt # {} =>
              /\ Len(invoked) < FirstMissing
              /\ pc \notin {"r_return", "returned"}
        /\ outcome = Raised("KeyError") =>
              /\ MissingAt # {}
              /\ Len(invoked) = FirstMissing - 1
              /\ Len(completed) = FirstMissing - 1
              /\ requested[Len(requested)] = NeededRoles[FirstMissing]

C7_Witness ==
    /\ variant = "refactored"
    /\ outcome = Raised("KeyError")
    /\ Len(invoked) = 2
    /\ Len(completed) = 2

\* ------------------------------------------------------------------ C8
\* The artifact name save_response_to_file is given for each role's stage.
StepNameOf(role) ==
    CASE role = CRITIC -> "step1_critic"
      [] role = FIXER -> "step2_fixer"
      [] role = VISUALIZER -> "step3_mermaid_diagram"
      [] role = IAC_GENERATOR -> "step4_bicep"
      [] OTHER -> "none"

EngineFailed == outcome.kind = "raised" /\ outcome.error[1] \in EngineErrors

CompletionAnnounced ==
    \E i \in 1..Len(stdout) :
        stdout[i] = [kind |-> "banner", text |-> <<"PIPELINE COMPLETE">>]

\* C8: once the engine invocation of stage k has failed, the failing stage is
\* and stays the last one an agent was created or invoked for, the only
\* artifacts are those of the stages completed before k, and the run never
\* reports completion.
C8_FailureStopsTheRun ==
    EngineFailed =>
        /\ pc = "raised"
        /\ Len(invoked) = Len(completed) + 1
        /\ Len(created) = Len(invoked)
        /\ Len(requested) = Len(invoked)
        /\ \A f \in files :
              \E i \in 1..Len(completed) :
                  f.name.step_name = StepNameOf(completed[i].roleId)
        /\ ~CompletionAnnounced
        /\ outcome.kind # "returned"

C8_Witness ==
    /\ EngineFailed
    /\ variant = "original"
    /\ ~ImageRun
    /\ Len(invoked) = 2
    /\ Cardinality(files) = 1
    /\ emitted # <<>>

\* ------------------------------------------------------------------ C9
\* The key of the results dict under which a role's stage text is returned.
StageKey(role) ==
    CASE role = DIAGRAM_INTERPRETER -> "interpretation"
      [] role = CRITIC -> "critique"
      [] role = FIXER -> "improved"
      [] role = VISUALIZER -> "diagram"
      [] role = IAC_GENERATOR -> "iac"

\* The stage results the caller has been handed.
ReceivedStageResults ==
    {[roleId |-> role, text |-> outcome.value[StageKey(role)]] :
        role \in {r \in AgentRole : outcome.value[StageKey(r)] # Unset}}

\* The results of the stages that have completed.
CompletedStageResults ==
    {[roleId |-> completed[i].roleId, text |-> completed[i].text] :
        i \in 1..Len(completed)}

RunEnded == pc \in {"raised", "returned"}

TextOf(chunk) == IF chunk.text = None THEN <<>> ELSE chunk.text

RECURSIVE ConcatOfDeltas(_)
ConcatOfDeltas(chunks) ==
    IF chunks = <<>> THEN <<>>
    ELSE TextOf(Head(chunks)) \o ConcatOfDeltas(Tail(chunks))

\* The positions right after a stream has been joined, and the local joined.
JoinedAt ==
    [p \in {"step2", "step3", "complete", "returned"} |->
        CASE p = "step2" -> "critique"
          [] p = "step3" -> "improved"
          [] OTHER -> "bicep"]

\* C10: when a streamed stage (CRITIC, FIXER, IAC_GENERATOR) ends, its final
\* text, in the workflow's local and in the recorded stage result, is the
\* concatenation of the texts of all the deltas the engine emitted for it,
\* in emission order.
C10_AggregateIsConcatenation ==
    (variant = "original" /\ pc \in DOMAIN JoinedAt) =>
        /\ local[JoinedAt[pc]] = ConcatOfDeltas(emitted)
        /\ completed[Len(completed)].text = ConcatOfDeltas(emitted)

C10_Witness ==
    /\ variant = "original"
    /\ pc = "step3"
    /\ Len(emitted) = 2
    /\ emitted[1].text = <<"a">>
    /\ emitted[2].text = <<"b">>

\* ------------------------------------------------------------------ C11
\* The position in stdout of the last banner printed, 0 when there is none.
LastBanner ==
    LET B == {i \in 1..Len(stdout) : stdout[i].kind = "banner"}
    IN  IF B = {} THEN 0 ELSE CHOOSE i \in B : \A j \in B : j <= i

\* The banner under which the event at position i was printed.
BannerOf(i) ==
    LET B == {j \in 1..i : stdout[j].kind = "banner"}
    IN  IF B = {} THEN <<>>
        ELSE stdout[CHOOSE j \in B : \A k \in B : k <= j].text

RECURSIVE ChunkEvents(_)
\* The texts of the chunk events of a stretch of stdout, in order.
ChunkEvents(out) ==
    IF out = <<>> THEN <<>>
    ELSE IF Head(out).kind = "chunk"
         THEN <<Head(out).text>> \o ChunkEvents(Tail(out))
         ELSE ChunkEvents(Tail(out))

\* What the display has been sent since the last banner, delta by delta.
Forwarded == ChunkEvents(SubSeq(stdout, LastBanner + 1, Len(stdout)))

RECURSIVE Deltas(_)
\* The text deltas of a stream: the texts of its chunks that carry text.
Deltas(chunks) ==
    IF chunks = <<>> THEN <<>>
    ELSE IF Truthy(Head(chunks).text)
         THEN <<Head(chunks).text>> \o Deltas(Tail(chunks))
         ELSE Deltas(Tail(chunks))

StreamedTitles ==
    {<<"STEP 1: Architecture Critic">>, <<"STEP 2: Architecture Fixer">>,
     <<"STEP 4: IaC Generator">>}

\* C11: during a streamed stage and after it, until the next stage
\* announces itself, the display has been sent exactly the text deltas the
\* engine has emitted for that stage so far, each once and in arrival order
\* (so a delta is on the display before the next one is taken); and nothing
\* is sent delta-wise to the display under the banner of another stage.
C11_DeltasForwardedInOrder ==
    /\ (/\ variant = "original"
        /\ invoked # <<>>
        /\ invoked[Len(invoked)].streamed
        /\ ~CompletionAnnounced)
          => Forwarded = Deltas(emitted)
    /\ \A i \in 1..Len(stdout) :
          stdout[i].kind = "chunk" => BannerOf(i) \in StreamedTitles

C11_Witness ==
    /\ variant = "original"
    /\ pc = "step2_stream"
    /\ Len(emitted) = 2
    /\ Forwarded = <<<<"b">>, <<"a">>>>

\* ------------------------------------------------------------------ C12
\* The positions between two stages, and after the last one.
BetweenStages ==
    {"step1", "step2", "step3", "step4", "complete",
     "r1", "r2", "r3", "r4", "r_return"}

\* The last stage result recorded.
LastResult == completed[Len(completed)]

\* C12: a stage that yields no text is recorded with the empty string as
\* its result (never a missing value); while no invocation is in progress
\* after it, the run stands before the next stage or at its end, and has
\* not raised; the empty string is what the later prompts are built from;
\* a run is only ever aborted while an invocation or an agent creation is
\* under way, and a run that returns has executed every stage.
C12_EmptyResultIsNotAnError ==
    /\ \A i \in 1..Len(completed) :
          completed[i].text \notin {None, NoAttr, Unset}
    /\ (/\ completed # <<>>
        /\ LastResult.text = <<>>
        /\ Len(requested) = Len(completed)
        /\ pc # "returned")
          => pc \in BetweenStages /\ outcome = Pending
    /\ ResultsOf(DIAGRAM_INTERPRETER) = {<<>>} =>
          \A crit \in InvocationsOf(CRITIC) : crit.prompt = <<>>
    /\ ResultsOf(CRITIC) = {<<>>} =>
          \A fix \in InvocationsOf(FIXER) :
              \E crit \in InvocationsOf(CRITIC) :
                  fix.prompt = <<"Original:\n">> \o crit.prompt
                               \o <<"\n\nCritique:\n">>
    /\ ResultsOf(FIXER) = {<<>>} =>
          \A inv \in InvocationsOf(VISUALIZER) \cup InvocationsOf(IAC_GENERATOR) :
              inv.prompt = <<>>
    /\ pc \in {"raised", "cancelled"}
          => Len(requested) = Len(completed) + 1
             \/ outcome = Raised("ImageLoadFailure")
    /\ RunCompleted => Len(completed) = Len(NeededRoles)

C12_Witness ==
    /\ RunCompleted
    /\ variant = "original"
    /\ ImageRun
    /\ Len(completed) = 5
    /\ \A i \in 1..Len(completed) : completed[i].text = <<>>
    /\ \E i \in 1..Len(emitted) : emitted[i].text = None

\* ------------------------------------------------------------------ C13
\* C13: however the run ends (all stages done, an invocation failed, the
\* image could not be loaded, the caller cancelled), once main() has been
\* left the grounding tool has been exited; it is exited at most once, and
\* only when the pipeline has ended, so after the last stage activity.
C13_ConnectionClosedOnEveryEnd ==
    /\ main_pc = "exited" => mcp.exited = 1
    /\ mcp.exited <= 1
    /\ mcp.exited = 1 => pc \in Ended /\ main_pc = "exited"

\* ------------------------------------------------------------------ C14
\* C14: the grounding tool is entered at most once, and before any stage is
\* invoked; every stage that is handed a tool is handed the one injected
\* handle, and that handle is open (entered, not yet exited) when the stage
\* is invoked; no step other than main's entry enters the tool.
C14_OneOpenSharedHandle ==
    /\ mcp.entered <= 1
    /\ invoked # <<>> => mcp.entered = 1
    /\ \A i \in 1..Len(invoked) :
          invoked[i].tools # <<>> =>
              invoked[i].tools = <<mcp_tool>> /\ invoked[i].connected

\* ------------------------------------------------------------------ C15
\* The stage that was in progress when the run was cut short.
Interrupted == invoked[Len(invoked)].role

\* C15: after the caller has cancelled a run in the middle of a stage, the
\* interrupted stage has no result (none recorded, none in the workflow's
\* locals or the results dict) and no artifact, no agent has been created
\* or invoked for a later stage, and once main() has been left the
\* grounding tool has been exited.
C15_CancelLeavesNoPartialResult ==
    pc = "cancelled" =>
        /\ Len(invoked) = Len(completed) + 1
        /\ Len(requested) = Len(invoked)
        /\ ResultsOf(Interrupted) = {}
        /\ results[StageKey(Interrupted)] = Unset
        /\ \A f \in files : f.name.step_name # StepNameOf(Interrupted)
        /\ \A i \in 1..Len(saved) : saved[i].step_name # StepNameOf(Interrupted)
        /\ ~CompletionAnnounced
        /\ main_pc = "exited" => mcp.exited = 1

\* ------------------------------------------------------------------ C16
\* C16: the log of engine invocations of a run never holds two invocations
\* of the same stage (so a stage that failed, or that gave empty output, is
\* not invoked again), and the k-th invocation of a run is always that of
\* its k-th stage: every run starts at its first stage and none begins or
\* resumes further on.
C16_AtMostOneInvocationPerStage ==
    /\ \A i, j \in 1..Len(invoked) :
          invoked[i].role = invoked[j].role => i = j
    /\ Len(invoked) <= Len(NeededRoles)
    /\ \A i \in 1..Len(invoked) : invoked[i].role = NeededRoles[i]
    /\ \A i \in 1..Len(completed) : completed[i].roleId = invoked[i].role

C16_Witness ==
    /\ EngineFailed
    /\ main_pc = "exited"
    /\ Len(invoked) = 3
    /\ completed[1].text = <<>>
    /\ completed[2].text # <<>>

\* ------------------------------------------------------------------ C17
\* The stages that have been started and have not yielded their result.
InProgress == Len(invoked) - Len(completed)

\* C17: at most one stage of a run is in progress at any time, and an agent
\* is created or invoked for a stage only when every stage before it has
\* yielded its final text: the k-th agent is created and the k-th
\* invocation made with k-1 results recorded, the result of a streamed
\* stage being the join of all the deltas of its stream.
C17_OneStageAtATime ==
    /\ InProgress \in {0, 1}
    /\ Len(created) = Len(invoked)
    /\ Len(requested) \in {Len(invoked), Len(invoked) + 1}
    /\ Len(requested) <= Len(completed) + 1
    /\ InProgress = 1 => pc \in Awaiting \cup {"raised", "cancelled"}
    /\ (variant = "original" /\ InProgress = 0 /\ completed # <<>>
        /\ invoked[Len(invoked)].streamed)
          => LastResult.text = Join(Deltas(emitted))

C17_Witness ==
    /\ variant = "original"
    /\ ImageRun
    /\ pc = "step2_stream"
    /\ InProgress = 1
    /\ Len(completed) = 2
    /\ LastResult.text # <<>>
    /\ emitted # <<>>

\* ------------------------------------------------------------------ C18
\* What the output directory holds at a location.
Holds(location) == {f.content : f \in {g \in files : g.name = location}}

\* C18: two saves made by different runs never go to the same location, and
\* the output directory holds, for every save made, the text that was
\* saved: no artifact of one run is overwritten by the other run's.
C18_RunsNeverCollide ==
    /\ \A i, j \in 1..Len(saved) :
          saved[i].by # saved[j].by => saved[i].returned # saved[j].returned
    /\ \A i \in 1..Len(saved) : Holds(saved[i].returned) = {saved[i].content}

\* ------------------------------------------------------------------ C19
\* C19: the artifact names of all the saves of one run carry one and the
\* same timestamp.
C19_OneRunTimestamp ==
    \A i, j \in 1..Len(saved) :
        saved[i].by = saved[j].by
            => saved[i].returned.timestamp = saved[j].returned.timestamp

\* ------------------------------------------------------------------ C20
\* The key a save is made under: the run and the stage's step name.
KeyOf(save) == <<save.by, save.step_name>>

\* C20: reading the location a save returned yields exactly the text that
\* was saved, the empty text included, and goes on doing so whatever is
\* saved later under other keys.
C20_SaveReadRoundTrip ==
    \A i \in 1..Len(saved) :
        (\A j \in (i + 1)..Len(saved) : KeyOf(saved[j]) # KeyOf(saved[i]))
            => read(files, saved[i].returned) = saved[i].content

\* ------------------------------------------------------------------ C21
\* The saves made of a stage result: under the stage's step name, with the
\* stage's final text as content.
SavesOf(result) ==
    {k \in 1..Len(saved) :
        /\ saved[k].step_name = StepNameOf(result.roleId)
        /\ saved[k].content = result.text}

\* C21: every stage result recorded in a run, the interpreter's included,
\* has been saved as exactly one artifact by the time it is recorded, hence
\* after its text is final and before the next stage's agent is invoked.
C21_EveryStageSavedOnce ==
    \A i \in 1..Len(completed) : Cardinality(SavesOf(completed[i])) = 1

\* ------------------------------------------------------------------ C22
\* The image-mode switch is on: USE_IMAGE_MODE reads "true" in any case.
SwitchOn == environ["USE_IMAGE_MODE"] \in {<<"true">>, <<"TRUE">>}

\* The image source locator: ARCHITECTURE_IMAGE_PATH, empty when not set.
Locator ==
    IF environ["ARCHITECTURE_IMAGE_PATH"] = Unset THEN <<>>
    ELSE environ["ARCHITECTURE_IMAGE_PATH"]

\* C22: once main() (original or refactored) has settled the mode, the run
\* is an image run exactly when the switch is on and the locator is not
\* empty, and then its image source is the locator; otherwise its input is
\* the default architecture text; and the first stage invoked is the
\* interpreter in the first case, the critic on the default text in the
\* second.
C22_InputSelection ==
    (variant \in {"original", "refactored"} /\ pc # "env") =>
        /\ ImageRun <=> (SwitchOn /\ Locator # <<>>)
        /\ ImageRun => image_path = Locator
        /\ ~ImageRun => OriginalText = demo_architecture
        /\ invoked # <<>> =>
              IF SwitchOn /\ Locator # <<>>
              THEN invoked[1].role = DIAGRAM_INTERPRETER
              ELSE /\ invoked[1].role = CRITIC
                   /\ invoked[1].prompt = demo_architecture

C22_Witness ==
    /\ variant = "refactored"
    /\ environ["USE_IMAGE_MODE"] = <<"TRUE">>
    /\ environ["ARCHITECTURE_IMAGE_PATH"] = <<>>
    /\ invoked # <<>>
    /\ invoked[1].role = CRITIC

\* ------------------------------------------------------------------ C23
\* An image source is configured: the locator is set, and the switch is on
\* where the program has one (step7 has none).
ImageConfigured == Locator # <<>> /\ (variant # "step7" => SwitchOn)

\* The locator is an http/https reference.
IsRemote == startswith(Locator, {"http://", "https://"})

\* C23: with an image source configured that is a local path which cannot
\* be read, no stage is ever invoked and the text pipeline is never entered
\* (on the default text or any other); the run gets no further than main's
\* start of the pipeline, and when it has ended it has ended with the
\* image-load failure.
C23_UnreadableImageIsFatal ==
    (ImageConfigured /\ ~IsRemote /\ Locator \notin ReadableFiles) =>
        /\ invoked = <<>>
        /\ local["architecture_text"] = Unset
        /\ pc \in {"env", "main", "entry", "raised"}
        /\ pc = "raised" => outcome = Raised("ImageLoadFailure")

\* ------------------------------------------------------------------ C24
\* The payloads that refer to a remote image.
References ==
    {UriContent} \cup {<<"ImageContent(url)">> \o path : path \in ImagePaths}

\* The payloads that hold what was read from a local file.
FileContents ==
    {DataContent}
    \cup {<<"ImageContent.from_file">> \o path : path \in ImagePaths}

\* C24: the payload handed to the interpreter is a reference when the
\* locator starts with http:// or https://, and the content read from the
\* local path otherwise; and with a remote image source configured, the
\* first stage invoked is the interpreter, on that reference.
C24_RemoteIsReferenceLocalIsRead ==
    /\ \A i \in 1..Len(invoked) :
          invoked[i].role = DIAGRAM_INTERPRETER =>
              IF IsRemote THEN invoked[i].prompt \in References
              ELSE invoked[i].prompt \in FileContents
    /\ (ImageConfigured /\ IsRemote /\ invoked # <<>>) =>
          /\ invoked[1].role = DIAGRAM_INTERPRETER
          /\ invoked[1].prompt \in References

\* The answers the calls of one kind have returned.
AnswersTo(op) ==
    {calls[i].answer : i \in {j \in 1..Len(calls) : calls[j].op = op}}

\* C25: a text input answers requires_interpretation() with false and
\* get_input() with the text it was constructed with; an image input answers
\* requires_interpretation() with true; and neither the object nor its
\* answers change from one call to the next, however many are made.
C25_StrategyAnswersAreFixed ==
    variant = "strategy" =>
        /\ \A text \in SeqsUpTo(Tokens, 2) :
              input_strategy = TextInputStrategy(text) =>
                  /\ AnswersTo("requires_interpretation") \subseteq {FALSE}
                  /\ \A answer \in AnswersTo("get_input") :
                        answer.raised = None /\ answer.value = text
        /\ \A path \in ImagePaths :
              input_strategy = ImageInputStrategy(path) =>
                  AnswersTo("requires_interpretation") \subseteq {TRUE}
        /\ \A i \in 1..Len(calls) : calls[i].on = input_strategy
        /\ Cardinality(AnswersTo("requires_interpretation")) <= 1
        /\ Cardinality(AnswersTo("get_input")) <= 1

\* A two-token text input asked three times, both questions among them.
C25_Witness ==
    /\ variant = "strategy"
    /\ input_strategy = TextInputStrategy(<<"a", "b">>)
    /\ Len(calls) = MaxAsks
    /\ calls[1].op = "get_input"
    /\ calls[2].op = "requires_interpretation"
    /\ calls[3].op = "get_input"

\* The texts the stages of one role have finished with, in order.
FinalTexts(role) ==
    {completed[i].text : i \in {j \in 1..Len(completed) :
                                   completed[j].roleId = role}}

\* C26: the map AgentPipeline.run returns has, for a text input, the keys
\* input, critique, improved, diagram and iac and no interpretation; for an
\* image input, the keys interpretation, critique, improved, diagram and iac
\* and no input; input is the text the strategy was built with and every
\* other value is the final text of its stage.
C26_ResultMap ==
    (variant = "refactored" /\ outcome.kind = "returned") =>
        LET value == outcome.value
        IN  /\ IF requires_interpretation(input_strategy)
               THEN /\ value["input"] = Unset
                    /\ value["interpretation"] # Unset
                    /\ FinalTexts(DIAGRAM_INTERPRETER)
                           = {value["interpretation"]}
               ELSE /\ value["interpretation"] = Unset
                    /\ value["input"] = input_strategy.arg
                    /\ FinalTexts(DIAGRAM_INTERPRETER) = {}
            /\ value["critique"] # Unset
            /\ value["improved"] # Unset
            /\ value["diagram"] # Unset
            /\ value["iac"] # Unset
            /\ FinalTexts(CRITIC) = {value["critique"]}
            /\ FinalTexts(FIXER) = {value["improved"]}
            /\ FinalTexts(VISUALIZER) = {value["diagram"]}
            /\ FinalTexts(IAC_GENERATOR) = {value["iac"]}

\* A returned text run whose stages ended with different texts, and a
\* returned image run.
C26_Witness ==
    /\ variant = "refactored"
    /\ outcome.kind = "returned"
    /\ ~requires_interpretation(input_strategy)
    /\ outcome.value["input"] = <<"t">>
    /\ outcome.value["critique"] = <<"a">>
    /\ outcome.value["improved"] = <<"b">>
    /\ outcome.value["iac"] = <<>>

C26_WitnessImage ==
    /\ variant = "refactored"
    /\ outcome.kind = "returned"
    /\ requires_interpretation(input_strategy)
    /\ outcome.value["interpretation"] = <<"a">>
    /\ outcome.value["critique"] = <<"b">>

\* The positions of the assistant messages that have content.
AssistantTexts(messages) ==
    {i \in 1..Len(messages) :
        /\ messages[i].role = "assistant"
        /\ messages[i].content \notin {None, <<>>}}

\* The content of the last assistant message that has content, "" when there
\* is none.
LastAssistantText(messages) ==
    LET at == AssistantTexts(messages)
    IN  IF at = {} THEN <<>>
        ELSE messages[CHOOSE i \in at : \A j \in at : j <= i].content

\* C27: extract_last_text returns the content of the last message of the
\* response that is from the assistant and has content, passing over tool
\* and user messages and assistant messages without content, and returns
\* the empty string when there is no such message.
C27_ExtractLastText ==
    \A i \in 1..Len(calls) :
        calls[i].op = "extract_last_text" =>
            calls[i].answer = LastAssistantText(calls[i].on.messages)

\* An assistant text followed by a tool message that has content too.
C27_Witness ==
    /\ Len(calls) = 1
    /\ calls[1].op = "extract_last_text"
    /\ calls[1].on.messages = <<[role |-> "assistant", content |-> <<"a">>],
                                [role |-> "tool", content |-> <<"b">>]>>
    /\ calls[1].answer = <<"a">>

\* C28: last_text of the original demo returns the content of the last
\* assistant message of the response that has content, passing over
\* assistant messages without content and messages of other roles, and
\* returns the empty string when the response has no such message.
C28_LastTextScansMessages ==
    \A i \in 1..Len(calls) :
        calls[i].op = "last_text" =>
            calls[i].answer = LastAssistantText(calls[i].on.messages)

\* C29: a DemoConfig cannot be changed once built: every assignment to one
\* of its fields is rejected with an error, and the config still holds
\* exactly what it was built with.
C29_ConfigIsImmutable ==
    variant = "config" =>
        /\ demo_config = from_env(environ)
        /\ \A i \in 1..Len(calls) :
              calls[i].op = "setattr" => calls[i].answer # None

\* The text one run's stage of a role finished with; Unset while it has not.
OwnText(run, role) ==
    LET at == {i \in 1..Len(completed[run]) : completed[run][i].roleId = role}
    IN  IF at = {} THEN Unset ELSE completed[run][CHOOSE i \in at : TRUE].text

\* The architecture a run works on when it runs alone: its own text, or its
\* own interpreter's answer.
OwnArchitecture(run) ==
    IF requires_interpretation(input_strategy[run])
    THEN OwnText(run, DIAGRAM_INTERPRETER)
    ELSE input_strategy[run].arg

\* The prompt a run passes to a stage when it runs alone and is given the
\* answers it has been given.
OwnPrompt(run, role) ==
    CASE role = DIAGRAM_INTERPRETER -> get_input(input_strategy[run]).value
      [] role = CRITIC -> OwnArchitecture(run)
      [] role = FIXER -> FixerPrompt(OwnArchitecture(run), OwnText(run, CRITIC))
      [] role = VISUALIZER -> OwnText(run, FIXER)
      [] role = IAC_GENERATOR -> OwnText(run, FIXER)

\* The results a run holds when it runs alone and is given the answers it
\* has been given.
OwnResults(run) ==
    [key \in ResultKeys |->
        CASE key = "input" ->
                 IF requires_interpretation(input_strategy[run])
                        \/ pc[run] = "entry"
                 THEN Unset ELSE input_strategy[run].arg
          [] key = "interpretation" -> OwnText(run, DIAGRAM_INTERPRETER)
          [] key = "critique" -> OwnText(run, CRITIC)
          [] key = "improved" -> OwnText(run, FIXER)
          [] key = "diagram" -> OwnText(run, VISUALIZER)
          [] key = "iac" -> OwnText(run, IAC_GENERATOR)]

\* C30: with two runs resumed in any order, every prompt a run passes to a
\* stage and every result it holds or returns is what its own input and the
\* answers given to its own stages determine, whatever the other run has
\* done in between.
C30_RunsDoNotInfluenceEachOther ==
    variant = "pair" =>
        \A run \in Runs :
            /\ \A i \in 1..Len(invoked[run]) :
                  invoked[run][i].prompt = OwnPrompt(run, invoked[run][i].role)
            /\ results[run] = OwnResults(run)
            /\ outcome[run].kind = "returned" =>
                  outcome[run].value = OwnResults(run)

\* Both runs have returned, with different results, after the event loop
\* went from the first to the second and back to the first.
C30_Witness ==
    /\ variant = "pair"
    /\ \A run \in Runs : outcome[run].kind = "returned"
    /\ loop.switches = 2
    /\ loop.last = self
    /\ results[self]["critique"] = <<"a">>
    /\ \E run \in Runs : results[run]["critique"] = <<"b">>

\* The roles of the stages completed so far, in order.
StagesDone == [i \in 1..Len(completed) |-> completed[i].roleId]

\* The run has ended: with every stage done, or with the failure of the
\* stage it had reached and nothing of a later stage.
Terminal ==
    \/ /\ pc = "returned"
       /\ StagesDone = NeededRoles
    \/ /\ pc \in {"raised", "cancelled"}
       /\ outcome.kind = "raised"
       /\ Len(invoked) <= Len(completed) + 1

\* C31: when every engine call fails or yields finitely many deltas, the
\* run eventually reaches a terminal state, all stages done or failed at
\* the first failing stage, and from then on no stage is created, invoked
\* or completed.
C31_RunsTerminate ==
    /\ <>Terminal
    /\ [][(pc \in Ended) =>
             (UNCHANGED <<pc, requested, created, invoked, completed,
                          emitted, outcome>>)]_vars

\* A run that has ended with all stages done, and its main() has left.
C31_Witness ==
    /\ pc = "returned"
    /\ StagesDone = NeededRoles
    /\ main_pc = "exited"

\* A run that has ended with the failure of its third stage.
C31_WitnessFailed ==
    /\ pc = "raised"
    /\ Len(invoked) = 3
    /\ Len(completed) = 2
    /\ main_pc = "exited"

\* C32: create_agent only builds an agent: however often and for whatever
\* role either factory is asked, no call invokes the completion engine or
\* the grounding tool, and the tool handle and the role table stay as they
\* were.
C32_CreateAgentHasNoEffect ==
    [][(variant = "factories") =>
          (UNCHANGED <<invoked, emitted, yielded, completed, stdout, files,
                       mcp, agent_config>>)]_vars

\* Both factories have been asked, one call raised, and an agent holding
\* the tool handle has been built.
C32_Witness ==
    /\ variant = "factories"
    /\ Len(calls) = MaxAsks
    /\ \E i \in 1..Len(calls) :
          calls[i].on = "original" /\ calls[i].answer # <<>>
                /\ calls[i].answer[1].tools = <<mcp_tool>>
    /\ \E i \in 1..Len(calls) :
          calls[i].on = "refactored" /\ calls[i].answer = <<>>
    /\ invoked = <<>>

\* The text a stage of the run has finished with.
TextDone(role) ==
    LET at == {i \in 1..Len(completed) : completed[i].roleId = role}
    IN  completed[CHOOSE i \in at : TRUE].text

\* The prompt the canonical pipeline passes to a stage on the same text
\* input and the same answers.
CanonicalPrompt(role) ==
    CASE role = CRITIC -> input_data
      [] role = FIXER -> FixerPrompt(input_data, TextDone(CRITIC))
      [] role = VISUALIZER -> TextDone(FIXER)
      [] role = IAC_GENERATOR -> TextDone(FIXER)

\* The stages invoked are a prefix of the canonical four, each with the
\* canonical prompt.
PrefixWithCanonicalPrompts ==
    /\ Len(invoked) <= Len(TextStages)
    /\ \A i \in 1..Len(invoked) :
          /\ invoked[i].role = TextStages[i]
          /\ invoked[i].prompt = CanonicalPrompt(invoked[i].role)

\* C33: every workshop step runs a prefix of CRITIQUE, FIX, VISUALIZE,
\* GENERATE_IAC, and each stage it runs gets the prompt and the tool
\* attachment that stage gets in the canonical pipeline.
C33_VariantIsSubset ==
    variant \in WorkshopSteps =>
        /\ PrefixWithCanonicalPrompts
        /\ \A i \in 1..Len(invoked) :
              invoked[i].tools = create_agent(invoked[i].role).tools

\* C33 as the code has it: every workshop step runs a prefix of CRITIQUE,
\* FIX, VISUALIZE, GENERATE_IAC with the canonical prompts; the tool
\* attachment is the canonical one in steps 4, 5 and 6, which open the
\* tool, and empty in steps 1, 2 and 3, which have no tool.
C33_VariantIsSubsetFromStep4 ==
    variant \in WorkshopSteps =>
        /\ PrefixWithCanonicalPrompts
        /\ \A i \in 1..Len(invoked) :
              invoked[i].tools =
                  (IF OpensTool(variant)
                   THEN create_agent(invoked[i].role).tools ELSE <<>>)

\* Step 6 has run all four stages on different answers.
C33_Witness ==
    /\ variant = "step6"
    /\ pc = "returned"
    /\ Len(invoked) = 4
    /\ TextDone(CRITIC) = <<"a">>
    /\ TextDone(FIXER) = <<"b">>
    /\ invoked[3].tools = <<>>

\* Step 2 has run its two stages without any tool.
C33_WitnessNoTool ==
    /\ variant = "step2"
    /\ pc = "returned"
    /\ Len(invoked) = 2
    /\ invoked[1].tools = <<>>

\* The places in the output where completion is announced.
Announcements ==
    {i \in 1..Len(stdout) :
        stdout[i] = [kind |-> "banner", text |-> <<"PIPELINE COMPLETE">>]}

\* C34: "PIPELINE COMPLETE" is in the output only when every stage of the
\* run, the interpreter included for an image input, has been invoked and
\* has completed and nothing has failed; and it is there at most once.
C34_CompletionOnlyAfterAllStages ==
    variant \in {"original", "refactored"} =>
        /\ Cardinality(Announcements) <= 1
        /\ Announcements # {} =>
              /\ StagesDone = NeededRoles
              /\ RolesOf(invoked) = NeededRoles
              /\ outcome.kind = "returned"
              /\ pc = "returned"

\* An image run of the original demo that has announced completion.
C34_Witness ==
    /\ variant = "original"
    /\ ImageRun
    /\ Announcements # {}
    /\ Len(completed) = 5
    /\ main_pc = "exited"

====
